---- MODULE Spec2Model ----
(***************************************************************************)
(* A model of the AokChain core: the governance store                      *)
(* (src/governance/governance.cpp) and the block-template assembler        *)
(* (miner.cpp, kept as src/unnamed/part_005).                              *)
(*                                                                         *)
(* Each component has its own specification; the variables of the other    *)
(* component stay at their idle value.                                     *)
(***************************************************************************)
EXTENDS Integers, Sequences, FiniteSets, TLC

(***************************************************************************)
(* Bounds of the model.                                                    *)
(***************************************************************************)
\* number of caller scripts besides DUMMY_SCRIPT
NumScripts == 2
\* number of governance calls made after Init
MaxCalls == 4

\* number of transactions the mempool can hold
MaxTx == 4

VARIABLES
    freezeDb,       \* the 'a' family: script -> "absent" | "true" | "false"
    numberFrozen,   \* the 'N' entry, an unsigned 32-bit integer
    govTrace        \* the calls made since Init, oldest first

VARIABLES
    govThreads      \* the threads inside FreezeScript / UnfreezeScript

VARIABLES
    mempool,            \* mapTx: the entries, in txid order
    ancestorScore,      \* mapTx.get<ancestor_score>(): the entries, best first
    nBlockMaxWeight,    \* BlockAssembler::nBlockMaxWeight
    pc,                 \* where CreateNewBlock stands
    inBlock,            \* BlockAssembler::inBlock
    vtx,                \* pblock->vtx (0 is the coinbase placeholder)
    nBlockWeight,
    nBlockSigOpsCost,
    nBlockTx,
    nFees,
    mapModifiedTx,      \* addPackageTxs: entry -> its modified aggregates
    failedTx,           \* addPackageTxs: entries that failed inclusion
    mi,                 \* addPackageTxs: cursor in the ancestor_score order
    nConsecutiveFailed,
    sortedEntries,      \* the package being added, the part still to add
    package,            \* the set `ancestors` of the package being added
    evalLog             \* the candidates evaluated in this build, oldest first

VARIABLES
    csMain,         \* cs_main: who holds it ("none" when free)
    csMempool,      \* mempool.cs: who holds it ("none" when free)
    chainTip,       \* chainActive.Tip(), as a height
    pindexPrev      \* CreateNewBlock: the tip it read (-1 before that)

VARIABLES
    cacheItemsList, \* CLRUCache::cacheItemsList: the list nodes, front first
    cacheItemsMap,  \* CLRUCache::cacheItemsMap: key -> list node (0: no entry)
    cacheNodes,     \* the list nodes: key, value and the list that owns them
    maxSize,        \* CLRUCache::maxSize
    cacheUse,       \* the keys held, by their last Put or successful Get, latest first
    cacheLast       \* the last call on the cache and what it did

VARIABLES
    costDb,         \* the 'c' family: serialized CostEntry -> amount | "absent"
    feeDb,          \* the 'f' family: serialized FeeEntry -> the script, if any
    costTrace       \* the calls made on the two tables since Init, oldest first

VARIABLES
    powParams,      \* Consensus::Params: the chain the node runs
    blockIndex,     \* the CBlockIndex entries of the active chain, genesis first
    powLast,        \* the last GetNextTargetRequired call and what it computed
    powCheck        \* the last CheckProofOfWork call and what it returned

VARIABLES
    vout,           \* CTransaction::vout: the nValue of each output, as 8 bytes
    voutPos,        \* GetValueOut: the output the loop is at
    nValueOut,      \* GetValueOut: the running total
    valueOut        \* GetValueOut: where the call is and what came out of it

VARIABLES
    fProofOfStakeArg,  \* CreateNewBlock: the argument of the call under way
    adjustedTime,   \* GetAdjustedTime(): the clock of the node
    txProofTime,    \* CreateNewBlock: the time read under the locks
    pblocktemplate, \* the template the last CreateNewBlock returned
    builds          \* the template builds finished so far, oldest first

VARIABLES
    stakeThread,    \* StakeCoins: the thread group, the ids of its threads or Null
    minerThreads,   \* GenerateSolo: the static thread group, likewise
    workers,        \* every thread created so far: what it runs and where it is
    workerLast      \* the last StakeCoins or GenerateSolo call that returned

VARIABLES
    blockFound,     \* the block each producing thread holds and where the thread is
    handOffs        \* the ProcessNewBlock calls made so far, oldest first

VARIABLES
    bannedFunds,    \* the map bannedFunds: txid -> vout, once it is constructed
    bannedTrace     \* the areBannedInputs calls made so far, oldest first

govVars == <<freezeDb, numberFrozen, govTrace>>

powVars == <<powParams, blockIndex, powLast, powCheck>>

amountVars == <<vout, voutPos, nValueOut, valueOut>>

workerVars == <<stakeThread, minerThreads, workers, workerLast>>

handOffVars == <<blockFound, handOffs>>

bannedVars == <<bannedFunds, bannedTrace>>

templateVars == <<fProofOfStakeArg, adjustedTime, txProofTime, pblocktemplate, builds>>

costVars == <<costDb, feeDb, costTrace>>

cacheVars == <<cacheItemsList, cacheItemsMap, cacheNodes, maxSize, cacheUse, cacheLast>>

lockVars == <<csMain, csMempool, chainTip, pindexPrev>>

minerVars == <<mempool, ancestorScore, nBlockMaxWeight, pc, inBlock, vtx, nBlockWeight,
               nBlockSigOpsCost, nBlockTx, nFees, mapModifiedTx, failedTx, mi,
               nConsecutiveFailed, sortedEntries, package, evalLog>>

threadVars == <<govThreads>>

\* what the calls on the governance store made one at a time leave alone
outsideGov == <<minerVars, threadVars, lockVars, cacheVars, costVars, powVars, amountVars,
    templateVars, workerVars, handOffVars, bannedVars>>

\* what the threads inside FreezeScript / UnfreezeScript leave alone
outsideThreads == <<minerVars, lockVars, cacheVars, costVars, powVars, amountVars,
    templateVars, workerVars, handOffVars, bannedVars>>

\* what the calls on the cache leave alone
outsideCache == <<govVars, threadVars, minerVars, lockVars, costVars, powVars, amountVars,
    templateVars, workerVars, handOffVars, bannedVars>>

\* what the calls on the cost and fee-address tables leave alone
outsideCosts == <<govVars, threadVars, minerVars, lockVars, cacheVars, powVars, amountVars,
    templateVars, workerVars, handOffVars, bannedVars>>

\* what the retarget engine and the proof-of-work check leave alone
outsidePow == <<govVars, threadVars, minerVars, lockVars, cacheVars, costVars, amountVars,
    templateVars, workerVars, handOffVars, bannedVars>>

\* the state of the other components
outsideTemplate == <<govVars, threadVars, cacheVars, costVars, powVars, amountVars,
    workerVars, handOffVars, bannedVars>>

\* what the selection loop leaves alone outside the assembler
outsideAssembler == <<outsideTemplate, templateVars>>

\* what the mempool and the passes of the selection loop leave alone
outsideMiner == <<outsideAssembler, lockVars>>

\* what GetValueOut leaves alone
outsideAmounts == <<govVars, threadVars, minerVars, lockVars, cacheVars, costVars, powVars,
    templateVars, workerVars, handOffVars, bannedVars>>

\* what StakeCoins, GenerateSolo and their threads leave alone
outsideWorkers == <<govVars, threadVars, minerVars, lockVars, cacheVars, costVars, powVars,
    amountVars, templateVars, handOffVars, bannedVars>>

\* what ProcessBlockFound, CheckStake and the threads that move the tip leave
\* alone, the locks aside
outsideHandOff == <<govVars, threadVars, minerVars, cacheVars, costVars, powVars, amountVars,
    templateVars, workerVars, bannedVars>>

\* what areBannedInputs leaves alone
outsideBanned == <<govVars, threadVars, minerVars, lockVars, cacheVars, costVars, powVars,
    amountVars, templateVars, workerVars, handOffVars>>

vars == <<govVars, minerVars, threadVars, lockVars, cacheVars, costVars, powVars, amountVars,
          templateVars, workerVars, handOffVars, bannedVars>>

\* nobody holds a lock and no template build has read the tip
LocksFree ==
    /\ csMain = "none"
    /\ csMempool = "none"
    /\ chainTip = 0
    /\ pindexPrev = -1

NoTemplate == [op |-> "none"]

\* no template has been asked for, the clock is at its start
TemplateIdle ==
    /\ fProofOfStakeArg = FALSE
    /\ adjustedTime = 0
    /\ txProofTime = 0
    /\ pblocktemplate = NoTemplate
    /\ builds = << >>

\* the assembler before it exists: the state of the miner variables in the
\* specifications of the other components
MinerIdle ==
    /\ mempool = << >>
    /\ ancestorScore = << >>
    /\ nBlockMaxWeight = 0
    /\ pc = "off"
    /\ inBlock = {}
    /\ vtx = << >>
    /\ nBlockWeight = 0
    /\ nBlockSigOpsCost = 0
    /\ nBlockTx = 0
    /\ nFees = 0
    /\ mapModifiedTx = << >>
    /\ failedTx = {}
    /\ mi = 1
    /\ nConsecutiveFailed = 0
    /\ sortedEntries = << >>
    /\ package = {}
    /\ evalLog = << >>
    /\ LocksFree
    /\ TemplateIdle

(***************************************************************************)
(* Governance store                                                        *)
(***************************************************************************)
\* CScript() << ParseHex("6885777789"): a 5-byte push, as script bytes
DUMMY_SCRIPT == <<5, 104, 133, 119, 119, 137>>

\* the i-th caller script: i bytes of value 80 + i
CallerScript(i) == [j \in 1..i |-> 80 + i]

Scripts == {DUMMY_SCRIPT} \cup {CallerScript(i) : i \in 1..NumScripts}

\* unsigned int: 32 bits, kept as two 16-bit limbs <<high, low>> (the value is
\* high * 65536 + low), so that number + 1 and number - 1 wrap as in C++
UInt32(n) == <<n \div 65536, n % 65536>>

UInt32Inc(u) ==
    IF u[2] = 65535 THEN <<(u[1] + 1) % 65536, 0>> ELSE <<u[1], u[2] + 1>>

UInt32Dec(u) ==
    IF u[2] = 0 THEN <<(u[1] + 65535) % 65536, 65535>> ELSE <<u[1], u[2] - 1>>

\* CDBWrapper::Exists on a FreezeEntry
Exists(db, s) == db[s] # "absent"

\* FreezeDetails() : frozen(true)
FreezeDetailsDefault == "true"

FreezeDetails(frozen) == IF frozen THEN "true" ELSE "false"

GetNumberOfFrozenScripts == numberFrozen

\* CanSend with the stored flag ignored: every script with an entry is refused
CanSendIn_NoFlag(db, s) == ~Exists(db, s)

CanSendIn(db, s) ==
    IF ~Exists(db, s) THEN TRUE
    ELSE db[s] # "true"

CanSend(s) == CanSendIn(freezeDb, s)

\* one record of govTrace: the call, its result and the store before it
Call(op, s, ret) ==
    [op |-> op, script |-> s, ret |-> ret,
     preDb |-> freezeDb, preNumber |-> numberFrozen]

\* CGovernance::Init on an empty store (the freeze family and its counter)
GovInit ==
    /\ numberFrozen = UInt32(0)
    /\ freezeDb = [s \in Scripts |->
                     IF s = DUMMY_SCRIPT THEN FreezeDetailsDefault ELSE "absent"]
    /\ govTrace = << >>

\* the threads that call into the store at the same time, each with a
\* script of its own
Threads == 1..NumScripts

\* a thread outside any call
ThreadIdle == [at |-> "idle", op |-> "none", number |-> UInt32(0), details |-> "absent", calls |-> 0]

ThreadsInit == govThreads = [t \in Threads |-> ThreadIdle]

\* Retarget engine (pow.cpp): 256-bit numbers, the chains and the idle state.
\* A 256-bit number (uint256, arith_uint256) is its 32 bytes, lowest first.
WIDTH == 32

\* the number of blocks a chain gets after its genesis block
MaxBlocks == 4

\* the 256-bit number whose highest zeros bytes are 0, whose next byte is top
\* and whose other bytes are 0xff
Uint256S(zeros, top) ==
    [i \in 1..WIDTH |->
        IF i > WIDTH - zeros THEN 0 ELSE IF i = WIDTH - zeros THEN top ELSE 255]

\* a compact target: the size byte and the 24 bits below it (sign bit and
\* 23-bit mantissa)
Compact(size, word) == [size |-> size, word |-> word]

\* CMainParams, CTestNetParams, CRegTestParams: the consensus parameters
\* the retarget engine reads, and the nBits of the genesis block
CMainParams ==
    [name |-> "main", nSegwitEnabled |-> FALSE,
     powLimit |-> Uint256S(1, 63), posLimit |-> Uint256S(6, 255),
     nTargetTimespan |-> 16 * 60, nTargetSpacing |-> 64,
     fPowNoRetargeting |-> FALSE, fPosNoRetargeting |-> FALSE,
     genesisBits |-> Compact(31, 4194303)]

CTestNetParams ==
    [name |-> "test", nSegwitEnabled |-> FALSE,
     powLimit |-> Uint256S(1, 63), posLimit |-> Uint256S(6, 255),
     nTargetTimespan |-> 16 * 60, nTargetSpacing |-> 64,
     fPowNoRetargeting |-> TRUE, fPosNoRetargeting |-> TRUE,
     genesisBits |-> Compact(31, 4194303)]

CRegTestParams ==
    [name |-> "regtest", nSegwitEnabled |-> TRUE,
     powLimit |-> Uint256S(0, 127), posLimit |-> Uint256S(0, 127),
     nTargetTimespan |-> 2016 * 60, nTargetSpacing |-> 1 * 60,
     fPowNoRetargeting |-> TRUE, fPosNoRetargeting |-> TRUE,
     genesisBits |-> Compact(32, 8388607)]

ChainParams == {CMainParams, CTestNetParams, CRegTestParams}

NoPowCall == [op |-> "none"]

\* the node before it has loaded a chain
PowIdle ==
    /\ powParams = CMainParams
    /\ blockIndex = << >>
    /\ powLast = NoPowCall
    /\ powCheck = NoPowCall

\* a thread group pointer: nullptr, or a group and the ids of its threads
Null == [null |-> TRUE, threads |-> {}]

ThreadGroup(ids) == [null |-> FALSE, threads |-> ids]

\* no staking or mining thread has been started
WorkersIdle ==
    /\ stakeThread = Null
    /\ minerThreads = Null
    /\ workers = << >>
    /\ workerLast = [op |-> "none", on |-> FALSE, had |-> {}]

\* the threads that produce blocks: the solo miner and the staker
Producers == {"SoloMiner", "ThreadStakeMiner"}

\* no producing thread holds a block
HandOffIdle ==
    /\ blockFound = [t \in Producers |-> [at |-> "search", hashPrevBlock |-> -1]]
    /\ handOffs = << >>

\* bannedFunds before its construction, no areBannedInputs call made
BannedIdle ==
    /\ bannedFunds = << >>
    /\ bannedTrace = << >>

\* no GetValueOut call is under way
AmountIdle ==
    /\ vout = << >>
    /\ voutPos = 0
    /\ nValueOut = << >>
    /\ valueOut = [op |-> "none"]

\* Governance store, cost and fee-address tables: the keys and Init
DUMMY_TYPE == 0

DB_FEE_ADDRESS == 102

DB_COST == 99

GOVERNANCE_COST_ROOT == 1

GOVERNANCE_COST_REISSUE == 2

GOVERNANCE_COST_UNIQUE == 3

GOVERNANCE_COST_SUB == 4

GOVERNANCE_COST_USERNAME == 5

\* a type that is none of the five
UnknownCostType == 6

CostTypes == GOVERNANCE_COST_ROOT..GOVERNANCE_COST_USERNAME

\* the block heights the calls are made with; 256 is a height whose
\* serialized form sorts before that of 1
Heights == {0, 1, 256}

MaxCostCalls == 3

\* the amounts the calls are made with
CostInputs == {"amount1", "amount2"}

\* the types the calls are made with
CostTypeInputs == {DUMMY_TYPE, GOVERNANCE_COST_ROOT, GOVERNANCE_COST_SUB, UnknownCostType}

\* GetScriptForDestination(DecodeDestination(Params().TokenFeeAddress()))
TokenFeeScript == <<118, 169, 20, 136, 172>>

FeeScriptInputs == {CallerScript(i) : i \in 1..NumScripts}

\* a 32-bit int as the stream writes it: little-endian
LE32(n) == <<n % 256, (n \div 256) % 256, (n \div 65536) % 256, (n \div 16777216) % 256>>

FromLE32(b) == b[1] + 256 * b[2] + 65536 * b[3] + 16777216 * b[4]

\* CostEntry(type, height), serialized: key, type, height
CostEntry(type, height) == <<DB_COST>> \o LE32(type) \o LE32(height)

\* FeeEntry(height), serialized: key, height
FeeEntry(height) == <<DB_FEE_ADDRESS>> \o LE32(height)

CostKeys == {CostEntry(type, height) : type \in DUMMY_TYPE..UnknownCostType, height \in Heights}

FeeKeys == {FeeEntry(height) : height \in Heights}

\* CostDetails() : cost(0)
CostDetailsDefault == "0"

\* no value under a FeeEntry
NoFeeDetails == [exists |-> FALSE, script |-> << >>]

FeeDetails(script) == [exists |-> TRUE, script |-> script]

\* CGovernance::Init, the cost and fee-address part of the batch
CostInit ==
    /\ costDb = [k \in CostKeys |->
                   IF k = CostEntry(GOVERNANCE_COST_ROOT, 0) THEN "RootFeeAmount"
                   ELSE IF k = CostEntry(GOVERNANCE_COST_REISSUE, 0) THEN "SubFeeAmount"
                   ELSE IF k = CostEntry(GOVERNANCE_COST_UNIQUE, 0) THEN "UniqueFeeAmount"
                   ELSE IF k = CostEntry(GOVERNANCE_COST_SUB, 0) THEN "ReissueFeeAmount"
                   ELSE IF k = CostEntry(GOVERNANCE_COST_USERNAME, 0) THEN "UsernameFeeAmount"
                   ELSE IF k = CostEntry(DUMMY_TYPE, 0) THEN CostDetailsDefault
                   ELSE "absent"]
    /\ feeDb = [k \in FeeKeys |->
                  IF k = FeeEntry(0) THEN FeeDetails(TokenFeeScript) ELSE NoFeeDetails]
    /\ costTrace = << >>

\* CLRUCache (tokens/tokentypes.h): its bounds, its nodes and its empty state
NumKeys == 3

NumValues == 2

\* the largest max_size a cache is constructed with or set to
MaxCacheSize == 2

Keys == 1..NumKeys

Values == 1..NumValues

\* the addresses a list node can have
NodeIds == 1..(2 * (MaxCacheSize + 1))

\* an address that holds no node
FreeNode == [key |-> 0, value |-> 0, owner |-> "free"]

\* key_value_pair_t(key, value) as a node of this cache's list
ListNode(key, value) == [key |-> key, value |-> value, owner |-> "this"]

\* the address the allocator hands out: the lowest free one
NewNode(nodes) ==
    CHOOSE n \in NodeIds :
        /\ nodes[n] = FreeNode
        /\ \A m \in NodeIds : m < n => nodes[m] # FreeNode

\* std::list::erase(it)
ListErase(list, it) == SelectSeq(list, LAMBDA n : n # it)

\* a sequence of keys without key
WithoutKey(seq, key) == SelectSeq(seq, LAMBDA k : k # key)

\* cacheItemsMap.size() of a map
MapSize(map) == Cardinality({k \in Keys : map[k] # 0})

Size == MapSize(cacheItemsMap)

MaxSize == maxSize

CacheExists(key) == cacheItemsMap[key] # 0

NoCall == [op |-> "none", key |-> 0, value |-> 0, found |-> FALSE,
           evicted |-> {}, ret |-> 0, useBefore |-> << >>]

\* CLRUCache(): SetNull()
CacheEmpty ==
    /\ cacheItemsList = << >>
    /\ cacheItemsMap = [k \in Keys |-> 0]
    /\ cacheNodes = [n \in NodeIds |-> FreeNode]
    /\ maxSize = 0
    /\ cacheUse = << >>
    /\ cacheLast = NoCall

\* the initial state of everything but the freeze table and the assembler
OthersInit == ThreadsInit /\ CacheEmpty /\ CostInit /\ PowIdle /\ AmountIdle /\ WorkersIdle /\ HandOffIdle /\ BannedIdle

GovStart == GovInit /\ MinerIdle /\ OthersInit

FreezeScript(s) ==
    /\ Len(govTrace) < MaxCalls
    /\ IF Exists(freezeDb, s)
       THEN IF freezeDb[s] # "true"
            THEN /\ freezeDb' = [freezeDb EXCEPT ![s] = FreezeDetails(TRUE)]
                 /\ numberFrozen' = UInt32Inc(numberFrozen)
            ELSE /\ freezeDb' = [freezeDb EXCEPT ![s] = freezeDb[s]]
                 /\ numberFrozen' = numberFrozen
       ELSE /\ freezeDb' = [freezeDb EXCEPT ![s] = FreezeDetailsDefault]
            /\ numberFrozen' = UInt32Inc(numberFrozen)
    /\ govTrace' = Append(govTrace, Call("FreezeScript", s, TRUE))
    /\ UNCHANGED outsideGov

UnfreezeScript(s) ==
    /\ Len(govTrace) < MaxCalls
    /\ IF Exists(freezeDb, s)
       THEN IF freezeDb[s] = "true"
            THEN /\ freezeDb' = [freezeDb EXCEPT ![s] = FreezeDetails(FALSE)]
                 /\ numberFrozen' = UInt32Dec(numberFrozen)
            ELSE /\ freezeDb' = [freezeDb EXCEPT ![s] = freezeDb[s]]
                 /\ numberFrozen' = numberFrozen
       ELSE /\ freezeDb' = [freezeDb EXCEPT ![s] = FreezeDetails(FALSE)]
            /\ numberFrozen' = numberFrozen
    /\ govTrace' = Append(govTrace, Call("UnfreezeScript", s, TRUE))
    /\ UNCHANGED outsideGov

RevertFreezeScript(s) ==
    /\ Len(govTrace) < MaxCalls
    /\ IF Exists(freezeDb, s) /\ freezeDb[s] = "true"
       THEN /\ freezeDb' = [freezeDb EXCEPT ![s] = FreezeDetails(FALSE)]
            /\ numberFrozen' = UInt32Dec(numberFrozen)
            /\ govTrace' = Append(govTrace, Call("RevertFreezeScript", s, TRUE))
       ELSE /\ UNCHANGED <<freezeDb, numberFrozen>>
            /\ govTrace' = Append(govTrace, Call("RevertFreezeScript", s, FALSE))
    /\ UNCHANGED outsideGov

RevertUnfreezeScript(s) ==
    /\ Len(govTrace) < MaxCalls
    /\ IF Exists(freezeDb, s) /\ freezeDb[s] # "true"
       THEN /\ freezeDb' = [freezeDb EXCEPT ![s] = FreezeDetails(TRUE)]
            /\ numberFrozen' = UInt32Inc(numberFrozen)
            /\ govTrace' = Append(govTrace, Call("RevertUnfreezeScript", s, TRUE))
       ELSE /\ UNCHANGED <<freezeDb, numberFrozen>>
            /\ govTrace' = Append(govTrace, Call("RevertUnfreezeScript", s, FALSE))
    /\ UNCHANGED outsideGov

GovNext ==
    \E s \in Scripts :
        \/ FreezeScript(s)
        \/ UnfreezeScript(s)
        \/ RevertFreezeScript(s)
        \/ RevertUnfreezeScript(s)

SpecGovernance == GovStart /\ [][GovNext]_vars

(***************************************************************************)
(* FreezeScript and UnfreezeScript called from several threads.  The class  *)
(* holds no lock: a call is two reads of the store followed by one batch.   *)
(***************************************************************************)
\* calls one thread makes
MaxThreadCalls == 2

\* the script thread t freezes and unfreezes
ScriptOf(t) == CallerScript(t)

\* thread t enters FreezeScript or UnfreezeScript
EnterCall(t, op) ==
    /\ govThreads[t].at = "idle"
    /\ govThreads[t].calls < MaxThreadCalls
    /\ govThreads' = [govThreads EXCEPT ![t].at = "readNumber", ![t].op = op,
                                         ![t].calls = @ + 1]
    /\ UNCHANGED govVars
    /\ UNCHANGED outsideThreads

\* Read(DB_NUMBER_FROZEN, number)
ReadNumberFrozen(t) ==
    /\ govThreads[t].at = "readNumber"
    /\ govThreads' = [govThreads EXCEPT ![t].at = "readEntry",
                                         ![t].number = numberFrozen]
    /\ UNCHANGED govVars
    /\ UNCHANGED outsideThreads

\* Read(entry, details)
ReadEntry(t) ==
    /\ govThreads[t].at = "readEntry"
    /\ govThreads' = [govThreads EXCEPT ![t].at = "writeBatch",
                                         ![t].details = freezeDb[ScriptOf(t)]]
    /\ UNCHANGED govVars
    /\ UNCHANGED outsideThreads

\* the batch FreezeScript has built from what it read
FreezeBatch(number, details) ==
    IF details # "absent"
    THEN IF details # "true"
         THEN [entry |-> FreezeDetails(TRUE), writesNumber |-> TRUE,
               number |-> UInt32Inc(number)]
         ELSE [entry |-> details, writesNumber |-> FALSE, number |-> number]
    ELSE [entry |-> FreezeDetailsDefault, writesNumber |-> TRUE,
          number |-> UInt32Inc(number)]

\* the batch UnfreezeScript has built from what it read
UnfreezeBatch(number, details) ==
    IF details # "absent"
    THEN IF details = "true"
         THEN [entry |-> FreezeDetails(FALSE), writesNumber |-> TRUE,
               number |-> UInt32Dec(number)]
         ELSE [entry |-> details, writesNumber |-> FALSE, number |-> number]
    ELSE [entry |-> FreezeDetails(FALSE), writesNumber |-> FALSE, number |-> number]

\* WriteBatch(batch): the writes of one batch take effect together
WriteBatch(t) ==
    /\ govThreads[t].at = "writeBatch"
    /\ LET batch == IF govThreads[t].op = "FreezeScript"
                    THEN FreezeBatch(govThreads[t].number, govThreads[t].details)
                    ELSE UnfreezeBatch(govThreads[t].number, govThreads[t].details)
       IN  /\ freezeDb' = [freezeDb EXCEPT ![ScriptOf(t)] = batch.entry]
           /\ numberFrozen' = IF batch.writesNumber THEN batch.number ELSE numberFrozen
    /\ govThreads' = [govThreads EXCEPT ![t].at = "idle"]
    /\ UNCHANGED govTrace
    /\ UNCHANGED outsideThreads

ThreadsNext ==
    \E t \in Threads :
        \/ \E op \in {"FreezeScript", "UnfreezeScript"} : EnterCall(t, op)
        \/ ReadNumberFrozen(t)
        \/ ReadEntry(t)
        \/ WriteBatch(t)

SpecGovernanceThreads == GovStart /\ [][ThreadsNext]_vars

(***************************************************************************)
(* CLRUCache (tokens/tokentypes.h): a std::list of (key, value) pairs and   *)
(* a map from each key to the list node that holds it                      *)
(***************************************************************************)
\* CLRUCache(max_size), or CLRUCache()
CacheInit ==
    /\ cacheItemsList = << >>
    /\ cacheItemsMap = [k \in Keys |-> 0]
    /\ cacheNodes = [n \in NodeIds |-> FreeNode]
    /\ maxSize \in 0..MaxCacheSize
    /\ cacheUse = << >>
    /\ cacheLast = NoCall

\* the cache object is usable: it was not made by the copy constructor
Usable == cacheLast.op # "Copy"

Put(key, value) ==
    /\ Usable
    /\ LET it == cacheItemsMap[key]
           found == it # 0
           n == NewNode(cacheNodes)
           list1 == <<n>> \o cacheItemsList
           nodes1 == [cacheNodes EXCEPT ![n] = ListNode(key, value)]
           list2 == IF found THEN ListErase(list1, it) ELSE list1
           nodes2 == IF found THEN [nodes1 EXCEPT ![it] = FreeNode] ELSE nodes1
           map2 == [cacheItemsMap EXCEPT ![key] = Head(list2)]
           over == MapSize(map2) > maxSize
           last == list2[Len(list2)]
           lastKey == nodes2[last].key
           use2 == <<key>> \o WithoutKey(cacheUse, key)
       IN  /\ cacheItemsList' = IF over THEN SubSeq(list2, 1, Len(list2) - 1) ELSE list2
           /\ cacheItemsMap' = IF over THEN [map2 EXCEPT ![lastKey] = 0] ELSE map2
           /\ cacheNodes' = IF over THEN [nodes2 EXCEPT ![last] = FreeNode] ELSE nodes2
           /\ cacheUse' = IF over THEN WithoutKey(use2, lastKey) ELSE use2
           /\ cacheLast' = [op |-> "Put", key |-> key, value |-> value, found |-> found,
                            evicted |-> IF over THEN {lastKey} ELSE {}, ret |-> 0,
                            useBefore |-> cacheUse]
    /\ UNCHANGED maxSize
    /\ UNCHANGED outsideCache

Erase(key) ==
    /\ Usable
    /\ LET it == cacheItemsMap[key]
       IN  IF it # 0
           THEN /\ cacheItemsList' = ListErase(cacheItemsList, it)
                /\ cacheNodes' = [cacheNodes EXCEPT ![it] = FreeNode]
                /\ cacheItemsMap' = [cacheItemsMap EXCEPT ![key] = 0]
                /\ cacheUse' = WithoutKey(cacheUse, key)
           ELSE UNCHANGED <<cacheItemsList, cacheNodes, cacheItemsMap, cacheUse>>
    /\ cacheLast' = [op |-> "Erase", key |-> key, value |-> 0,
                     found |-> cacheItemsMap[key] # 0, evicted |-> {}, ret |-> 0,
                     useBefore |-> cacheUse]
    /\ UNCHANGED maxSize
    /\ UNCHANGED outsideCache

\* Get: the value, or "range_error" for the exception
Get(key) ==
    /\ Usable
    /\ LET it == cacheItemsMap[key]
       IN  IF it = 0
           THEN /\ UNCHANGED <<cacheItemsList, cacheUse>>
                /\ cacheLast' = [op |-> "Get", key |-> key, value |-> 0, found |-> FALSE,
                                 evicted |-> {}, ret |-> "range_error",
                                 useBefore |-> cacheUse]
           ELSE /\ cacheItemsList' = <<it>> \o ListErase(cacheItemsList, it)
                /\ cacheUse' = <<key>> \o WithoutKey(cacheUse, key)
                /\ cacheLast' = [op |-> "Get", key |-> key, value |-> 0, found |-> TRUE,
                                 evicted |-> {}, ret |-> cacheNodes[it].value,
                                 useBefore |-> cacheUse]
    /\ UNCHANGED <<cacheItemsMap, cacheNodes, maxSize>>
    /\ UNCHANGED outsideCache

Clear ==
    /\ Usable
    /\ cacheItemsMap' = [k \in Keys |-> 0]
    /\ cacheItemsList' = << >>
    /\ cacheNodes' = [n \in NodeIds |-> FreeNode]
    /\ cacheUse' = << >>
    /\ cacheLast' = [NoCall EXCEPT !.op = "Clear", !.useBefore = cacheUse]
    /\ UNCHANGED maxSize
    /\ UNCHANGED outsideCache

SetNull ==
    /\ Usable
    /\ maxSize' = 0
    /\ cacheItemsMap' = [k \in Keys |-> 0]
    /\ cacheItemsList' = << >>
    /\ cacheNodes' = [n \in NodeIds |-> FreeNode]
    /\ cacheUse' = << >>
    /\ cacheLast' = [NoCall EXCEPT !.op = "SetNull", !.useBefore = cacheUse]
    /\ UNCHANGED outsideCache

SetSize(size) ==
    /\ Usable
    /\ maxSize' = size
    /\ cacheLast' = [NoCall EXCEPT !.op = "SetSize", !.useBefore = cacheUse]
    /\ UNCHANGED <<cacheItemsList, cacheItemsMap, cacheNodes, cacheUse>>
    /\ UNCHANGED outsideCache

\* the addresses of the nodes of a copy of a list of len nodes
RECURSIVE CopyNodes(_, _)
CopyNodes(nodes, len) ==
    IF len = 0 THEN << >>
    ELSE LET n == NewNode(nodes)
         IN  <<n>> \o CopyNodes([nodes EXCEPT ![n] = ListNode(0, 0)], len - 1)

\* CLRUCache(const CLRUCache& cache): from here on the variables describe
\* the new object.  Its list is a copy, made of new nodes; its map is a
\* copy too, so its entries still hold the iterators into the list of the
\* object copied from.  The calls on the new object are not modelled: they
\* hand those iterators to its own list.
CopyConstruct ==
    /\ Usable
    /\ LET fresh == CopyNodes(cacheNodes, Len(cacheItemsList))
       IN  /\ cacheItemsList' = fresh
           /\ cacheNodes' =
                 [n \in NodeIds |->
                    IF \E i \in 1..Len(fresh) : fresh[i] = n
                    THEN LET i == CHOOSE j \in 1..Len(fresh) : fresh[j] = n
                         IN  [cacheNodes[cacheItemsList[i]] EXCEPT !.owner = "this"]
                    ELSE IF cacheNodes[n] = FreeNode THEN FreeNode
                    ELSE [cacheNodes[n] EXCEPT !.owner = "other"]]
    /\ cacheLast' = [NoCall EXCEPT !.op = "Copy", !.useBefore = cacheUse]
    /\ UNCHANGED <<cacheItemsMap, maxSize, cacheUse>>
    /\ UNCHANGED outsideCache

CacheNext ==
    \/ \E key \in Keys : \E value \in Values : Put(key, value)
    \/ \E key \in Keys : Erase(key)
    \/ \E key \in Keys : Get(key)
    \/ Clear
    \/ SetNull
    \/ \E size \in 0..MaxCacheSize : SetSize(size)
    \/ CopyConstruct

CacheStart ==
    CacheInit /\ ThreadsInit /\ CostInit /\ PowIdle /\ AmountIdle /\ WorkersIdle /\ HandOffIdle /\ BannedIdle /\ GovInit /\ MinerIdle

SpecCache == CacheStart /\ [][CacheNext]_vars

(***************************************************************************)
(* Governance store: the cost table and the fee-address table              *)
(***************************************************************************)
\* the order of the keys in the database: bytewise
BytesLess(a, b) ==
    \/ \E i \in 1..Len(a) :
          /\ i <= Len(b)
          /\ a[i] < b[i]
          /\ \A j \in 1..(i - 1) : a[j] = b[j]
    \/ /\ Len(a) < Len(b)
       /\ \A j \in 1..Len(a) : a[j] = b[j]

\* the keys of the two tables that hold a value
StoredKeys ==
    {k \in CostKeys : costDb[k] # "absent"} \cup {k \in FeeKeys : feeDb[k].exists}

RECURSIVE InKeyOrder(_)
InKeyOrder(keys) ==
    IF keys = {} THEN << >>
    ELSE LET k == CHOOSE k \in keys : \A o \in keys : ~BytesLess(o, k)
         IN  <<k>> \o InKeyOrder(keys \ {k})

\* NewIterator() and it->Seek(key): the keys from key on, in key order
Seek(key) == InKeyOrder({k \in StoredKeys : ~BytesLess(k, key)})

\* it->GetKey(entry) && entry.key == DB_COST
IsCostEntry(k) == Len(k) >= 9 /\ k[1] = DB_COST

\* it->GetKey(entry) && entry.key == DB_FEE_ADDRESS
IsFeeEntry(k) == Len(k) >= 5 /\ k[1] = DB_FEE_ADDRESS

EntryType(k) == FromLE32(SubSeq(k, 2, 5))

CostEntryHeight(k) == FromLE32(SubSeq(k, 6, 9))

FeeEntryHeight(k) == FromLE32(SubSeq(k, 2, 5))

\* the loop of GetCost that keeps the entry seen last, whatever its height
RECURSIVE GetCostFrom_LastSeen(_, _, _, _)
GetCostFrom_LastSeen(it, type, height, details) ==
    IF it = << >> THEN details
    ELSE IF IsCostEntry(Head(it))
    THEN IF EntryType(Head(it)) = type
         THEN GetCostFrom_LastSeen(Tail(it), type, CostEntryHeight(Head(it)), costDb[Head(it)])
         ELSE GetCostFrom_LastSeen(Tail(it), type, height, details)
    ELSE details

\* the loop of GetCost
RECURSIVE GetCostFrom(_, _, _, _)
GetCostFrom(it, type, height, details) ==
    IF it = << >> THEN details
    ELSE IF IsCostEntry(Head(it))
    THEN IF EntryType(Head(it)) = type /\ CostEntryHeight(Head(it)) > height
         THEN GetCostFrom(Tail(it), type, CostEntryHeight(Head(it)), costDb[Head(it)])
         ELSE GetCostFrom(Tail(it), type, height, details)
    ELSE details

GetCost(type) == GetCostFrom(Seek(CostEntry(DUMMY_TYPE, 0)), type, -1, CostDetailsDefault)

\* the loop of GetFeeScript
RECURSIVE GetFeeScriptFrom(_, _, _)
GetFeeScriptFrom(it, height, details) ==
    IF it = << >> THEN details
    ELSE IF IsFeeEntry(Head(it))
    THEN IF FeeEntryHeight(Head(it)) > height
         THEN GetFeeScriptFrom(Tail(it), FeeEntryHeight(Head(it)), feeDb[Head(it)].script)
         ELSE GetFeeScriptFrom(Tail(it), height, details)
    ELSE details

GetFeeScript == GetFeeScriptFrom(Seek(FeeEntry(0)), -1, DUMMY_SCRIPT)

\* a call on the tables, with what GetCost returned just before it
CostCall(op, type, height, ret) ==
    [op |-> op, type |-> type, height |-> height, ret |-> ret,
     before |-> [t \in CostTypes |-> GetCost(t)]]

UpdateCost(cost, type, height) ==
    /\ Len(costTrace) < MaxCostCalls
    /\ IF type \notin CostTypes
       THEN /\ UNCHANGED costDb
            /\ costTrace' = Append(costTrace, CostCall("UpdateCost", type, height, FALSE))
       ELSE /\ costDb' = IF costDb[CostEntry(type, height)] = "absent"
                         THEN [costDb EXCEPT ![CostEntry(type, height)] = cost]
                         ELSE costDb
            /\ costTrace' = Append(costTrace, CostCall("UpdateCost", type, height, TRUE))
    /\ UNCHANGED feeDb
    /\ UNCHANGED outsideCosts

RevertUpdateCost(type, height) ==
    /\ Len(costTrace) < MaxCostCalls
    /\ IF costDb[CostEntry(type, height)] # "absent"
       THEN /\ costDb' = [costDb EXCEPT ![CostEntry(type, height)] = "absent"]
            /\ costTrace' = Append(costTrace, CostCall("RevertUpdateCost", type, height, TRUE))
       ELSE /\ UNCHANGED costDb
            /\ costTrace' = Append(costTrace, CostCall("RevertUpdateCost", type, height, FALSE))
    /\ UNCHANGED feeDb
    /\ UNCHANGED outsideCosts

UpdateFeeScript(script, height) ==
    /\ Len(costTrace) < MaxCostCalls
    /\ feeDb' = IF ~feeDb[FeeEntry(height)].exists
                THEN [feeDb EXCEPT ![FeeEntry(height)] = FeeDetails(script)]
                ELSE feeDb
    /\ costTrace' = Append(costTrace, CostCall("UpdateFeeScript", DUMMY_TYPE, height, TRUE))
    /\ UNCHANGED costDb
    /\ UNCHANGED outsideCosts

RevertUpdateFeeScript(height) ==
    /\ Len(costTrace) < MaxCostCalls
    /\ IF feeDb[FeeEntry(height)].exists
       THEN /\ feeDb' = [feeDb EXCEPT ![FeeEntry(height)] = NoFeeDetails]
            /\ costTrace' =
                  Append(costTrace, CostCall("RevertUpdateFeeScript", DUMMY_TYPE, height, TRUE))
       ELSE /\ UNCHANGED feeDb
            /\ costTrace' =
                  Append(costTrace, CostCall("RevertUpdateFeeScript", DUMMY_TYPE, height, FALSE))
    /\ UNCHANGED costDb
    /\ UNCHANGED outsideCosts

CostNext ==
    \/ \E cost \in CostInputs : \E type \in CostTypeInputs : \E height \in Heights :
          UpdateCost(cost, type, height)
    \/ \E type \in CostTypeInputs : \E height \in Heights : RevertUpdateCost(type, height)
    \/ \E script \in FeeScriptInputs : \E height \in Heights : UpdateFeeScript(script, height)
    \/ \E height \in Heights : RevertUpdateFeeScript(height)

SpecCosts == GovStart /\ [][CostNext]_vars

(***************************************************************************)
(* The scans of the freeze family: DumpFreezeStats and GetFrozenScripts    *)
(***************************************************************************)
DB_NUMBER_FROZEN == 78

DB_ADDRESS == 97

DB_GOVERNANCE_INIT == 71

\* a pay-to-pubkey-hash script: 25 bytes
P2PKHScript ==
    <<118, 169, 20>> \o [i \in 1..20 |-> 17] \o <<136, 172>>

\* the scripts the scans are tried on: those of the other specifications,
\* of 1 and 2 bytes, and a script of the length of a payment script
ScanScripts == Scripts \cup {P2PKHScript}

\* WriteCompactSize for a length below 253: one byte
CompactSize(n) == <<n>>

\* FreezeEntry(script), serialized: key, then the script with its length
FreezeEntry(script) == <<DB_ADDRESS>> \o CompactSize(Len(script)) \o script

\* it->GetKey(entry) && entry.key == DB_ADDRESS
IsFreezeEntry(k) == Len(k) >= 2 /\ k[1] = DB_ADDRESS

\* entry.script of a key that unserializes as a FreezeEntry
EntryScript(k) == SubSeq(k, 3, 2 + k[2])

\* every key of the database that holds a value
AllStoredKeys ==
    {<<DB_NUMBER_FROZEN>>, <<DB_GOVERNANCE_INIT>>}
        \cup {FreezeEntry(s) : s \in {x \in DOMAIN freezeDb : Exists(freezeDb, x)}}
        \cup StoredKeys

\* NewIterator() and it->Seek(key) over the whole database
SeekFreeze(key) == InKeyOrder({k \in AllStoredKeys : ~BytesLess(k, key)})

\* the loop of the two scans: the keys visited until one is no FreezeEntry
RECURSIVE VisitedFrom(_, _)
VisitedFrom(keys, i) ==
    IF i > Len(keys) THEN << >>
    ELSE IF IsFreezeEntry(keys[i])
         THEN <<EntryScript(keys[i])>> \o VisitedFrom(keys, i + 1)
         ELSE << >>

Visited == VisitedFrom(SeekFreeze(FreezeEntry(DUMMY_SCRIPT)), 1)

\* SelectSeq(seq, frozen) for the scripts stored as frozen
RECURSIVE FrozenOf(_, _)
FrozenOf(scripts, i) ==
    IF i > Len(scripts) THEN << >>
    ELSE (IF freezeDb[scripts[i]] = "true" THEN <<scripts[i]>> ELSE << >>)
             \o FrozenOf(scripts, i + 1)

\* CGovernance::Init over the scripts of the scans
ScanInit ==
    /\ numberFrozen = UInt32(0)
    /\ freezeDb = [s \in ScanScripts |->
                     IF s = DUMMY_SCRIPT THEN FreezeDetailsDefault ELSE "absent"]
    /\ govTrace = << >>

\* GetFrozenScripts(FreezeVector): the vector is kept as the result
GetFrozenScripts ==
    /\ Len(govTrace) < MaxCalls
    /\ govTrace' = Append(govTrace, Call("GetFrozenScripts", << >>, FrozenOf(Visited, 1)))
    /\ UNCHANGED <<freezeDb, numberFrozen>>
    /\ UNCHANGED outsideGov

\* DumpFreezeStats(FreezeVector): the vector is kept as the result
DumpFreezeStats ==
    /\ Len(govTrace) < MaxCalls
    /\ govTrace' = Append(govTrace,
                       Call("DumpFreezeStats", << >>,
                            [i \in 1..Len(Visited) |->
                                <<Visited[i], freezeDb[Visited[i]] = "true">>]))
    /\ UNCHANGED <<freezeDb, numberFrozen>>
    /\ UNCHANGED outsideGov

ScanNext ==
    \/ \E s \in ScanScripts :
          \/ FreezeScript(s)
          \/ UnfreezeScript(s)
          \/ RevertFreezeScript(s)
          \/ RevertUnfreezeScript(s)
    \/ GetFrozenScripts
    \/ DumpFreezeStats

ScanStart == ScanInit /\ MinerIdle /\ OthersInit

SpecFreezeScan == ScanStart /\ [][ScanNext]_vars

(***************************************************************************)
(* Retarget engine and proof-of-work check (pow.cpp)                        *)
(***************************************************************************)
\* the spacings of the block times the chains are built with
TimeSteps == {-16, 0, 96, 656}

\* byte j (1: lowest) of a small number
ByteOf(n, j) == (n \div (256 ^ (j - 1))) % 256

\* arith_uint256(uint64_t), for numbers below 2^31
ArithFromInt(n) == [i \in 1..WIDTH |-> IF i <= 4 THEN ByteOf(n, i) ELSE 0]

\* (bits() + 7) / 8: the number of bytes up to the highest one that is not 0
ByteLen(v) ==
    IF \A i \in 1..Len(v) : v[i] = 0 THEN 0
    ELSE CHOOSE i \in 1..Len(v) : v[i] # 0 /\ \A j \in (i + 1)..Len(v) : v[j] = 0

\* base_uint::CompareTo(a, b) < 0, on numbers of the same length
ArithLess(a, b) ==
    \E i \in 1..Len(a) : a[i] < b[i] /\ \A j \in (i + 1)..Len(a) : a[j] = b[j]

ArithIsZero(v) == \A i \in 1..Len(v) : v[i] = 0

\* arith_uint256::SetCompact: the number, fNegative and fOverflow
SetCompact(nCompact) ==
    LET nSize == nCompact.size
        nWord == nCompact.word % 8388608
    IN  [value |-> IF nSize <= 3
                   THEN ArithFromInt(nWord \div (256 ^ (3 - nSize)))
                   ELSE [i \in 1..WIDTH |->
                           IF i - (nSize - 3) \in 1..3
                           THEN ByteOf(nWord, i - (nSize - 3)) ELSE 0],
         fNegative |-> nWord # 0 /\ nCompact.word >= 8388608,
         fOverflow |-> nWord # 0 /\ ( \/ nSize > 34
                                      \/ (nWord > 255 /\ nSize > 33)
                                      \/ (nWord > 65535 /\ nSize > 32) )]

\* arith_uint256::GetCompact(false)
GetCompact(v) ==
    LET nSize == ByteLen(v)
        nCompact == IF nSize <= 3
                    THEN (v[1] + 256 * v[2] + 65536 * v[3]) * (256 ^ (3 - nSize))
                    ELSE v[nSize - 2] + 256 * v[nSize - 1] + 65536 * v[nSize]
    IN  IF nCompact >= 8388608
        THEN Compact(nSize + 1, nCompact \div 256)
        ELSE Compact(nSize, nCompact)

\* the bytes of b32 times v from byte i on, lowest first, for len bytes
RECURSIVE MulFrom(_, _, _, _, _)
MulFrom(v, b32, i, carry, len) ==
    IF i > len THEN << >>
    ELSE LET n == carry + b32 * (IF i <= WIDTH THEN v[i] ELSE 0)
         IN  <<n % 256>> \o MulFrom(v, b32, i + 1, n \div 256, len)

\* the product in a number of WIDTH + 4 bytes, which it always fits
ArithMul_Wide(v, b32) == MulFrom(v, b32, 1, 0, WIDTH + 4)

\* base_uint::operator*=(uint32_t): the carry out of the highest byte is
\* dropped
ArithMul(v, b32) == MulFrom(v, b32, 1, 0, WIDTH)

\* the bytes of the quotient of v by d from byte i down, highest first
RECURSIVE DivFrom(_, _, _, _)
DivFrom(v, d, i, rem) ==
    IF i = 0 THEN << >>
    ELSE LET n == rem * 256 + v[i]
         IN  <<n \div d>> \o DivFrom(v, d, i - 1, n % d)

\* base_uint::operator/=, by a small number
ArithDiv(v, d) ==
    LET q == DivFrom(v, d, Len(v), 0)
    IN  [i \in 1..Len(v) |-> q[Len(v) + 1 - i]]

\* GetLastBlockIndex: the index of the latest block at or before index of
\* the kind asked for, or of the genesis block (1)
RECURSIVE GetLastBlockIndex(_, _)
GetLastBlockIndex(pindex, fProofOfStake) ==
    IF pindex > 1 /\ blockIndex[pindex].pos # fProofOfStake
    THEN GetLastBlockIndex(pindex - 1, fProofOfStake)
    ELSE pindex

GetTargetLimit(fProofOfStake) ==
    IF fProofOfStake THEN powParams.posLimit ELSE powParams.powLimit

\* the limit adjustment step of CalculateNextTargetRequired with every
\* spacing below nTargetSpacing raised to it
LimitAdjustmentStep_Floor(nActualSpacing, nTargetSpacing) ==
    IF nActualSpacing < nTargetSpacing THEN nTargetSpacing
    ELSE IF nActualSpacing > nTargetSpacing * 10 THEN nTargetSpacing * 10
    ELSE nActualSpacing

\* the limit adjustment step of CalculateNextTargetRequired
LimitAdjustmentStep(nActualSpacing, nTargetSpacing) ==
    LET negative == IF nActualSpacing < 0 THEN nTargetSpacing ELSE nActualSpacing
    IN  IF negative > nTargetSpacing * 10 THEN nTargetSpacing * 10 ELSE negative

\* CalculateNextTargetRequired when it retargets, with the product taken
\* as if no carry were lost
Retarget_Wide(pindexLast, nFirstBlockTime) ==
    LET nTargetSpacing == powParams.nTargetSpacing
        nActualSpacing == LimitAdjustmentStep(blockIndex[pindexLast].time - nFirstBlockTime,
                                              nTargetSpacing)
        bnTargetLimit == GetTargetLimit(blockIndex[pindexLast].pos)
        nInterval == powParams.nTargetTimespan \div nTargetSpacing
        product == ArithMul_Wide(SetCompact(blockIndex[pindexLast].nBits).value,
                                 (nInterval - 1) * nTargetSpacing + nActualSpacing + nActualSpacing)
        wide == ArithDiv(product, (nInterval + 1) * nTargetSpacing)
        limit == bnTargetLimit \o <<0, 0, 0, 0>>
    IN  IF ArithIsZero(wide) \/ ArithLess(limit, wide)
        THEN GetCompact(bnTargetLimit)
        ELSE GetCompact(SubSeq(wide, 1, WIDTH))

\* CalculateNextTargetRequired when it retargets
Retarget(pindexLast, nFirstBlockTime) ==
    LET nTargetSpacing == powParams.nTargetSpacing
        nActualSpacing == LimitAdjustmentStep(blockIndex[pindexLast].time - nFirstBlockTime,
                                              nTargetSpacing)
        bnTargetLimit == GetTargetLimit(blockIndex[pindexLast].pos)
        nInterval == powParams.nTargetTimespan \div nTargetSpacing
        product == ArithMul(SetCompact(blockIndex[pindexLast].nBits).value,
                            (nInterval - 1) * nTargetSpacing + nActualSpacing + nActualSpacing)
        bnNew == ArithDiv(product, (nInterval + 1) * nTargetSpacing)
    IN  IF ArithIsZero(bnNew) \/ ArithLess(bnTargetLimit, bnNew)
        THEN GetCompact(bnTargetLimit)
        ELSE GetCompact(bnNew)

\* CalculateNextTargetRequired without the two no-retargeting returns
CalculateNextTargetRequired_AlwaysRetarget(pindexLast, nFirstBlockTime) ==
    Retarget(pindexLast, nFirstBlockTime)

CalculateNextTargetRequired(pindexLast, nFirstBlockTime) ==
    LET fProofOfStake == blockIndex[pindexLast].pos
    IN  IF ~fProofOfStake /\ powParams.fPowNoRetargeting THEN blockIndex[pindexLast].nBits
        ELSE IF fProofOfStake /\ powParams.fPosNoRetargeting THEN blockIndex[pindexLast].nBits
        ELSE Retarget(pindexLast, nFirstBlockTime)

\* GetNextTargetRequired without the return for the second block
GetNextTargetRequired_OneBlock(pindexLast, fProofOfStake) ==
    LET nTargetLimit == GetCompact(GetTargetLimit(fProofOfStake))
    IN  IF pindexLast = 0 THEN nTargetLimit
        ELSE LET pindexPrevKind == GetLastBlockIndex(pindexLast, fProofOfStake)
             IN  IF pindexPrevKind = 1 THEN nTargetLimit
                 ELSE CalculateNextTargetRequired(
                          pindexPrevKind,
                          blockIndex[GetLastBlockIndex(pindexPrevKind - 1, fProofOfStake)].time)

\* GetNextTargetRequired; pindexLast is an index into blockIndex, 0 for NULL
GetNextTargetRequired(pindexLast, fProofOfStake) ==
    LET nTargetLimit == GetCompact(GetTargetLimit(fProofOfStake))
    IN  IF pindexLast = 0 THEN nTargetLimit
        ELSE LET pindexPrevKind == GetLastBlockIndex(pindexLast, fProofOfStake)
             IN  IF pindexPrevKind = 1 THEN nTargetLimit
                 ELSE LET pindexPrevPrev == GetLastBlockIndex(pindexPrevKind - 1, fProofOfStake)
                      IN  IF pindexPrevPrev = 1 THEN nTargetLimit
                          ELSE CalculateNextTargetRequired(pindexPrevKind,
                                                           blockIndex[pindexPrevPrev].time)

\* CheckProofOfWork with the hash compared by >= 
CheckProofOfWork_Strict(hash, nBits) ==
    LET bnTarget == SetCompact(nBits)
    IN  IF \/ bnTarget.fNegative
           \/ ArithIsZero(bnTarget.value)
           \/ bnTarget.fOverflow
           \/ ArithLess(powParams.powLimit, bnTarget.value)
        THEN FALSE
        ELSE IF ~ArithLess(hash, bnTarget.value) THEN FALSE
        ELSE TRUE

CheckProofOfWork(hash, nBits) ==
    LET bnTarget == SetCompact(nBits)
    IN  IF \/ bnTarget.fNegative
           \/ ArithIsZero(bnTarget.value)
           \/ bnTarget.fOverflow
           \/ ArithLess(powParams.powLimit, bnTarget.value)
        THEN FALSE
        ELSE IF ArithLess(bnTarget.value, hash) THEN FALSE
        ELSE TRUE

\* the node starts on one of the chains, with its genesis block
PowInit ==
    /\ powParams \in ChainParams
    /\ blockIndex = <<[pos |-> FALSE, time |-> 0, nBits |-> powParams.genesisBits]>>
    /\ powLast = NoPowCall
    /\ powCheck = NoPowCall

\* a block of the kind asked for is added on the tip, with the nBits that
\* GetNextTargetRequired asks of it
AppendBlock(fProofOfStake, step) ==
    /\ Len(blockIndex) >= 1
    /\ Len(blockIndex) <= MaxBlocks
    /\ LET pindexLast == Len(blockIndex)
           nBits == GetNextTargetRequired(pindexLast, fProofOfStake)
       IN  /\ blockIndex' = Append(blockIndex,
                                   [pos |-> fProofOfStake,
                                    time |-> blockIndex[pindexLast].time + step,
                                    nBits |-> nBits])
           /\ powLast' = [op |-> "GetNextTargetRequired", pindexLast |-> pindexLast,
                          fProofOfStake |-> fProofOfStake, ret |-> nBits]
    /\ UNCHANGED <<powParams, powCheck>>
    /\ UNCHANGED outsidePow

PowNext == \E fProofOfStake \in BOOLEAN : \E step \in TimeSteps : AppendBlock(fProofOfStake, step)

PowStart ==
    PowInit /\ ThreadsInit /\ CacheEmpty /\ CostInit /\ AmountIdle /\ WorkersIdle /\ HandOffIdle /\ BannedIdle /\ GovInit /\ MinerIdle

SpecPow == PowStart /\ [][PowNext]_vars

\* the hashes and the compact targets CheckProofOfWork is called with
HashInputs ==
    { ArithFromInt(0),
      SetCompact(Compact(30, 8388607)).value,
      [SetCompact(Compact(30, 8388607)).value EXCEPT ![1] = 1],
      SetCompact(Compact(31, 4194303)).value,
      [i \in 1..WIDTH |-> 255] }

CompactInputs ==
    { Compact(31, 4194303), Compact(32, 8388607), Compact(31, 4194304),
      Compact(30, 8388607), Compact(0, 0), Compact(3, 1), Compact(1, 8388607),
      Compact(31, 8388608 + 16383), Compact(35, 1), Compact(34, 256),
      Compact(33, 255), Compact(255, 1) }

ProofOfWorkChecked(hash, nBits) ==
    /\ Len(blockIndex) >= 1
    /\ powCheck' = [op |-> "CheckProofOfWork", hash |-> hash, nBits |-> nBits,
                    ret |-> CheckProofOfWork(hash, nBits)]
    /\ UNCHANGED <<powParams, blockIndex, powLast>>
    /\ UNCHANGED outsidePow

PowCheckNext == \E hash \in HashInputs : \E nBits \in CompactInputs : ProofOfWorkChecked(hash, nBits)

SpecPowCheck == PowStart /\ [][PowCheckNext]_vars

(***************************************************************************)
(* CTransaction::GetValueOut: CAmount is int64_t, kept as its 8 bytes in   *)
(* two's complement, lowest byte first                                     *)
(***************************************************************************)
\* the outputs of the transactions tried
MaxVout == 3

INT64_BYTES == 8

\* amount.h is not among the sources: 21000000 * COIN, COIN = 100000000, as in
\* the code base this one derives from (0x000775F05A074000)
MAX_MONEY == <<0, 64, 7, 90, 240, 117, 7, 0>>

Int64Zero == <<0, 0, 0, 0, 0, 0, 0, 0>>

Int64Max == <<255, 255, 255, 255, 255, 255, 255, 127>>

Int64Min == <<0, 0, 0, 0, 0, 0, 0, 128>>

\* the nValue fields tried: 0, 1, MAX_MONEY - 1, MAX_MONEY, MAX_MONEY + 1,
\* INT64_MAX, INT64_MIN, -1 and -MAX_MONEY
AmountInputs ==
    { Int64Zero,
      <<1, 0, 0, 0, 0, 0, 0, 0>>,
      <<255, 63, 7, 90, 240, 117, 7, 0>>,
      MAX_MONEY,
      <<1, 64, 7, 90, 240, 117, 7, 0>>,
      Int64Max,
      Int64Min,
      <<255, 255, 255, 255, 255, 255, 255, 255>>,
      <<0, 192, 248, 165, 15, 138, 248, 255>> }

VoutInputs == UNION { [1..n -> AmountInputs] : n \in 0..MaxVout }

\* bytes i..len of a + b + carry; the carry out of byte len is dropped
RECURSIVE AddFrom(_, _, _, _, _)
AddFrom(a, b, i, carry, len) ==
    IF i > len THEN << >>
    ELSE LET t == a[i] + b[i] + carry
         IN  <<t % 256>> \o AddFrom(a, b, i + 1, t \div 256, len)

\* a + b in a 64-bit register
Int64Add(a, b) == AddFrom(a, b, 1, 0, INT64_BYTES)

Int64Negative(a) == a[INT64_BYTES] >= 128

\* a + b is not an int64_t: the operands have one sign and the register shows the other
SignedOverflow(a, b) ==
    /\ Int64Negative(a) = Int64Negative(b)
    /\ Int64Negative(Int64Add(a, b)) # Int64Negative(a)

\* a < b for byte strings of one length read as unsigned numbers
RECURSIVE BytesBelow(_, _, _)
BytesBelow(a, b, i) ==
    IF i = 0 THEN FALSE
    ELSE IF a[i] # b[i] THEN a[i] < b[i]
    ELSE BytesBelow(a, b, i - 1)

\* amount.h: MoneyRange(nValue) is (nValue >= 0 && nValue <= MAX_MONEY)
MoneyRange(nValue) ==
    /\ ~Int64Negative(nValue)
    /\ ~BytesBelow(MAX_MONEY, nValue, INT64_BYTES)

\* nValueOut += tx_out.nValue: what the variable can hold afterwards.  A signed
\* overflow is undefined, the register may then show any value
SumOutcomes(total, nValue) ==
    IF SignedOverflow(total, nValue)
    THEN AmountInputs \cup {Int64Add(total, nValue)}
    ELSE {Int64Add(total, nValue)}

ValueOutOfRange_TotalOnly(nValue, total) == ~MoneyRange(total)

\* if (!MoneyRange(tx_out.nValue) || !MoneyRange(nValueOut))
ValueOutOfRange(nValue, total) == ~MoneyRange(nValue) \/ ~MoneyRange(total)

\* a transaction whose GetValueOut has just been called
AmountInit ==
    /\ vout \in VoutInputs
    /\ voutPos = 1
    /\ nValueOut = Int64Zero
    /\ valueOut = [op |-> "running", overflowed |-> FALSE]

\* one pass of the loop over vout
GetValueOutStep ==
    /\ valueOut.op = "running"
    /\ voutPos <= Len(vout)
    /\ \E total \in SumOutcomes(nValueOut, vout[voutPos]) :
          /\ nValueOut' = total
          /\ valueOut' =
                IF ValueOutOfRange(vout[voutPos], total)
                THEN [op |-> "thrown",
                      overflowed |-> SignedOverflow(nValueOut, vout[voutPos])]
                ELSE [op |-> "running",
                      overflowed |-> SignedOverflow(nValueOut, vout[voutPos])]
    /\ voutPos' = voutPos + 1
    /\ UNCHANGED vout
    /\ UNCHANGED outsideAmounts

\* return nValueOut
GetValueOutReturn ==
    /\ valueOut.op = "running"
    /\ voutPos > Len(vout)
    /\ valueOut' = [op |-> "returned", overflowed |-> valueOut.overflowed]
    /\ UNCHANGED <<vout, voutPos, nValueOut>>
    /\ UNCHANGED outsideAmounts

AmountNext == GetValueOutStep \/ GetValueOutReturn

AmountStart ==
    /\ AmountInit
    /\ ThreadsInit /\ CacheEmpty /\ CostInit /\ PowIdle /\ WorkersIdle /\ HandOffIdle /\ BannedIdle /\ GovInit /\ MinerIdle

SpecAmounts == AmountStart /\ [][AmountNext]_vars

(***************************************************************************)
(* StakeCoins, GenerateSolo and the threads they start (miner.cpp)         *)
(***************************************************************************)
\* the threads created in one run, and the nThreads asked of GenerateSolo
MaxWorkers == 4

ThreadCounts == 0..2

\* boost::thread_group::create_thread: a running thread the group owns
NewWorker(kind, call) ==
    [kind |-> kind, call |-> call, state |-> "running",
     interruptRequested |-> FALSE, handle |-> "joinable"]

\* group->interrupt_all(); delete group: every thread of the group has its
\* interruption requested, and ~thread_group deletes the boost::thread
\* objects, which detaches the threads that were not joined
StopGroup(group) ==
    [w \in DOMAIN workers |->
        IF w \in group
        THEN [workers[w] EXCEPT !.interruptRequested = TRUE, !.handle = "detached"]
        ELSE workers[w]]

\* the threads table after `n` threads running `kind` are created
CreateThreads(table, kind, n) ==
    LET call == Cardinality({table[w].call : w \in DOMAIN table}) + 1
    IN  table \o [k \in 1..n |-> NewWorker(kind, call)]

\* StakeCoins(fStake, pwallet, stakeThread)
StakeCoins(fStake) ==
    /\ fStake => Len(workers) + 1 <= MaxWorkers
    /\ LET stopped == IF stakeThread # Null THEN StopGroup(stakeThread.threads) ELSE workers
       IN  /\ workers' = IF fStake THEN CreateThreads(stopped, "ThreadStakeMiner", 1)
                         ELSE stopped
           /\ stakeThread' = IF fStake THEN ThreadGroup({Len(workers) + 1}) ELSE Null
    /\ workerLast' = [op |-> "StakeCoins", on |-> fStake,
                      had |-> stakeThread.threads]
    /\ UNCHANGED minerThreads
    /\ UNCHANGED outsideWorkers

\* GenerateSolo(fGenerate, nThreads, chainparams, connman)
GenerateSolo(fGenerate, nThreads) ==
    /\ fGenerate => Len(workers) + nThreads <= MaxWorkers
    /\ LET stopped == IF minerThreads # Null THEN StopGroup(minerThreads.threads) ELSE workers
           starts == ~(nThreads = 0 \/ ~fGenerate)
       IN  /\ workers' = IF starts THEN CreateThreads(stopped, "SoloMiner", nThreads)
                         ELSE stopped
           /\ minerThreads' = IF starts
                              THEN ThreadGroup((Len(workers) + 1)..(Len(workers) + nThreads))
                              ELSE Null
    /\ workerLast' = [op |-> "GenerateSolo", on |-> fGenerate /\ nThreads # 0,
                      had |-> minerThreads.threads]
    /\ UNCHANGED stakeThread
    /\ UNCHANGED outsideWorkers

\* a thread whose interruption was requested reaches an interruption point
\* (MilliSleep in ThreadStakeMiner, interruption_point() in SoloMiner) and
\* leaves with thread_interrupted
ObserveInterruption(w) ==
    /\ workers[w].state = "running"
    /\ workers[w].interruptRequested
    /\ workers' = [workers EXCEPT ![w].state = "exited"]
    /\ workerLast' = [workerLast EXCEPT !.op = "none"]
    /\ UNCHANGED <<stakeThread, minerThreads>>
    /\ UNCHANGED outsideWorkers

\* a thread leaves by itself: ThreadStakeMiner returns when no template was
\* built, SoloMiner throws thread_interrupted after a block on demand
WorkerReturns(w) ==
    /\ workers[w].state = "running"
    /\ workers' = [workers EXCEPT ![w].state = "exited"]
    /\ workerLast' = [workerLast EXCEPT !.op = "none"]
    /\ UNCHANGED <<stakeThread, minerThreads>>
    /\ UNCHANGED outsideWorkers

WorkersNext ==
    \/ \E fStake \in BOOLEAN : StakeCoins(fStake)
    \/ \E fGenerate \in BOOLEAN : \E nThreads \in ThreadCounts : GenerateSolo(fGenerate, nThreads)
    \/ \E w \in DOMAIN workers : ObserveInterruption(w)
    \/ \E w \in DOMAIN workers : WorkerReturns(w)

SpecWorkers == GovStart /\ [][WorkersNext]_vars

(***************************************************************************)
(* Governance store: the claims                                            *)
(***************************************************************************)
LastCall == govTrace[Len(govTrace)]

TraceOps == [i \in 1..Len(govTrace) |-> <<govTrace[i].op, govTrace[i].script>>]

\* the operations applied to s in tr and not reverted since: a successful
\* FreezeScript or UnfreezeScript is pushed, a successful revert pops
RECURSIVE AppliedOps(_, _)
AppliedOps(tr, s) ==
    IF tr = << >> THEN << >>
    ELSE LET before == AppliedOps(SubSeq(tr, 1, Len(tr) - 1), s)
             c == tr[Len(tr)]
         IN  IF c.script # s \/ ~c.ret THEN before
             ELSE IF c.op \in {"FreezeScript", "UnfreezeScript"}
                  THEN Append(before, c.op)
                  ELSE IF before = << >> THEN before
                       ELSE SubSeq(before, 1, Len(before) - 1)

LastApplied(tr, s) ==
    LET ops == AppliedOps(tr, s)
    IN  IF ops = << >> THEN "none" ELSE ops[Len(ops)]

\* C1: in every reachable state the frozen count equals the number of
\* scripts S for which CanSend(S) is false.
C1_CountMatchesFrozen ==
    GetNumberOfFrozenScripts = UInt32(Cardinality({s \in Scripts : ~CanSend(s)}))

\* C2: FreezeScript(s) leaves CanSend(s) false and raises the count by exactly
\* 1 only when s was absent or stored false (unchanged otherwise);
\* UnfreezeScript(s) leaves CanSend(s) true and lowers the count by exactly 1
\* only when s was stored true (unchanged otherwise).
C2_FreezeUnfreezeCount ==
    govTrace # << >> =>
        LET c == LastCall
        IN  /\ c.op = "FreezeScript" =>
                /\ ~CanSend(c.script)
                /\ IF c.preDb[c.script] = "true"
                   THEN numberFrozen = c.preNumber
                   ELSE /\ c.preNumber # <<65535, 65535>>
                        /\ numberFrozen = UInt32Inc(c.preNumber)
            /\ c.op = "UnfreezeScript" =>
                /\ CanSend(c.script)
                /\ IF c.preDb[c.script] = "true"
                   THEN /\ c.preNumber # <<0, 0>>
                        /\ numberFrozen = UInt32Dec(c.preNumber)
                   ELSE numberFrozen = c.preNumber

\* C3: CanSend(s) is true exactly when the freeze table has no entry for s or
\* the stored value is false, and false exactly when the stored value is true.
C3_CanSendTable ==
    \A s \in Scripts :
        /\ CanSend(s) <=> (freezeDb[s] = "absent" \/ freezeDb[s] = "false")
        /\ ~CanSend(s) <=> freezeDb[s] = "true"

C3_Witness ==
    /\ govTrace # << >>
    /\ \E s, t, u \in Scripts :
        /\ freezeDb[s] = "false" /\ CanSend(s)
        /\ freezeDb[t] = "true" /\ ~CanSend(t)
        /\ freezeDb[u] = "absent" /\ CanSend(u)

\* C4: on a freshly initialised store FreezeScript(s) then RevertFreezeScript(s)
\* yields count 0 and CanSend(s); a second RevertFreezeScript(s) fails and
\* changes neither the entry for s nor the count.
C4_RevertFreezeScenario ==
    \A s \in Scripts :
        /\ TraceOps = << <<"FreezeScript", s>>, <<"RevertFreezeScript", s>> >> =>
              /\ numberFrozen = UInt32(0)
              /\ CanSend(s)
        /\ TraceOps = << <<"FreezeScript", s>>, <<"RevertFreezeScript", s>>,
                         <<"RevertFreezeScript", s>> >> =>
              /\ ~LastCall.ret
              /\ freezeDb[s] = LastCall.preDb[s]
              /\ numberFrozen = LastCall.preNumber

\* C5: RevertFreezeScript(s) succeeds only if the last operation applied to s
\* was a freeze, RevertUnfreezeScript(s) only if it was an unfreeze; every
\* other call fails and writes nothing.
C5_RevertOnlyAfterMatchingOp ==
    govTrace # << >> =>
        LET c == LastCall
            applied == LastApplied(SubSeq(govTrace, 1, Len(govTrace) - 1), c.script)
        IN  /\ c.op = "RevertFreezeScript" /\ c.ret => applied = "FreezeScript"
            /\ c.op = "RevertUnfreezeScript" /\ c.ret => applied = "UnfreezeScript"
            /\ c.op \in {"RevertFreezeScript", "RevertUnfreezeScript"} /\ ~c.ret =>
                  /\ freezeDb = c.preDb
                  /\ numberFrozen = c.preNumber

\* C6: FreezeScript(s) followed by RevertFreezeScript(s), and UnfreezeScript(s)
\* followed by RevertUnfreezeScript(s), leave CanSend(x) for every x and the
\* count as they were before the pair.
C6_ApplyThenRevertIsIdentity ==
    Len(govTrace) >= 2 =>
        LET c == LastCall
            b == govTrace[Len(govTrace) - 1]
        IN  (/\ b.script = c.script
             /\ \/ b.op = "FreezeScript" /\ c.op = "RevertFreezeScript"
                \/ b.op = "UnfreezeScript" /\ c.op = "RevertUnfreezeScript")
            => /\ \A x \in Scripts : CanSend(x) = CanSendIn(b.preDb, x)
               /\ numberFrozen = b.preNumber

(***************************************************************************)
(* Mempool (txmempool.h): the entries and their ancestor aggregates        *)
(***************************************************************************)
WITNESS_SCALE_FACTOR == 4

MAX_BLOCK_SIGOPS_COST == 80000

\* GetMaxBlockWeight()
MAX_BLOCK_WEIGHT == 4000000

\* satoshis per 1000 bytes
DEFAULT_BLOCK_MIN_TX_FEE == 1000

MAX_CONSECUTIVE_FAILURES == 1000

\* the transactions offered to the mempool: virtual size, modified fee,
\* sigop cost, and whether IsFinalTx holds at the next height
TxKinds ==
    { [size |-> 250, fee |-> 0,    sigops |-> 0,     final |-> TRUE],
      [size |-> 250, fee |-> 499,  sigops |-> 0,     final |-> TRUE],
      [size |-> 250, fee |-> 5000, sigops |-> 0,     final |-> TRUE],
      [size |-> 500, fee |-> 5000, sigops |-> 0,     final |-> TRUE],
      [size |-> 250, fee |-> 5000, sigops |-> 40000, final |-> TRUE],
      [size |-> 250, fee |-> 5000, sigops |-> 0,     final |-> FALSE] }

\* the values of options.nBlockMaxWeight an assembler is built with
MaxWeightOptions == {6001, 2 * MAX_BLOCK_WEIGHT}

Max(a, b) == IF a >= b THEN a ELSE b

Min(a, b) == IF a <= b THEN a ELSE b

TxIds == 1..Len(mempool)

\* the in-mempool ancestors of entry i, i excluded
Ancestors(i) == mempool[i].ancestors

\* CTxMemPool::CalculateDescendants: i and everything that depends on it
CalculateDescendants(i) == {i} \cup {j \in TxIds : i \in Ancestors(j)}

GetTxSize(i) == mempool[i].size

GetTxWeight(i) == WITNESS_SCALE_FACTOR * mempool[i].size

GetModifiedFee(i) == mempool[i].fee

GetFee(i) == mempool[i].fee

GetSigOpCost(i) == mempool[i].sigops

IsFinalTx(i) == mempool[i].final

RECURSIVE SizeOf(_)
SizeOf(S) ==
    IF S = {} THEN 0
    ELSE LET x == CHOOSE y \in S : TRUE IN GetTxSize(x) + SizeOf(S \ {x})

RECURSIVE FeesOf(_)
FeesOf(S) ==
    IF S = {} THEN 0
    ELSE LET x == CHOOSE y \in S : TRUE IN GetModifiedFee(x) + FeesOf(S \ {x})

RECURSIVE SigOpsOf(_)
SigOpsOf(S) ==
    IF S = {} THEN 0
    ELSE LET x == CHOOSE y \in S : TRUE IN GetSigOpCost(x) + SigOpsOf(S \ {x})

RECURSIVE WeightOf(_)
WeightOf(S) ==
    IF S = {} THEN 0
    ELSE LET x == CHOOSE y \in S : TRUE IN GetTxWeight(x) + WeightOf(S \ {x})

GetCountWithAncestors(i) == mempool[i].nCountWithAncestors

GetSizeWithAncestors(i) == mempool[i].nSizeWithAncestors

GetModFeesWithAncestors(i) == mempool[i].nModFeesWithAncestors

GetSigOpCostWithAncestors(i) == mempool[i].nSigOpCostWithAncestors

\* the ancestor_score index: TRUE when entry a (txid ia) sorts before b
CompareTxMemPoolEntryByAncestorFee(a, ia, b, ib) ==
    LET aFees == a.nModFeesWithAncestors
        aSize == a.nSizeWithAncestors
        bFees == b.nModFeesWithAncestors
        bSize == b.nSizeWithAncestors
    IN  IF aFees * bSize # bFees * aSize THEN aFees * bSize > bFees * aSize
        ELSE IF aFees # bFees THEN aFees > bFees
        ELSE IF aSize # bSize THEN aSize < bSize
        ELSE ia < ib

\* the ancestor_score index walked from its far end
AncestorScoreAt_FromEnd(k) == ancestorScore[Len(ancestorScore) + 1 - k]

\* the entry at position k of mapTx.get<ancestor_score>()
AncestorScoreAt(k) == ancestorScore[k]

\* the entry addUnchecked builds: the ancestor aggregates are computed by
\* walking the parents already in the pool
NewEntry(kind, parents) ==
    LET anc == parents \cup UNION {Ancestors(q) : q \in parents}
    IN  [size |-> kind.size, fee |-> kind.fee, sigops |-> kind.sigops,
         final |-> kind.final, parents |-> parents, ancestors |-> anc,
         nCountWithAncestors |-> Cardinality(anc) + 1,
         nSizeWithAncestors |-> SizeOf(anc) + kind.size,
         nModFeesWithAncestors |-> FeesOf(anc) + kind.fee,
         nSigOpCostWithAncestors |-> SigOpsOf(anc) + kind.sigops]

\* the ancestor_score index after entry e is inserted with txid id
InsertByScore(order, e, id) ==
    LET ahead == {k \in 1..Len(order) :
                    CompareTxMemPoolEntryByAncestorFee(mempool[order[k]], order[k], e, id)}
        n == Cardinality(ahead)
    IN  SubSeq(order, 1, n) \o <<id>> \o SubSeq(order, n + 1, Len(order))

\* CFeeRate::GetFee
FeeRateGetFee(nSatoshisPerK, nSize) == (nSatoshisPerK * nSize) \div 1000

\* CTxMemPool::addUnchecked: a transaction spending outputs of `parents`
AddUnchecked(kind, parents) ==
    /\ csMempool = "none"
    /\ Len(mempool) < MaxTx
    /\ mempool' = Append(mempool, NewEntry(kind, parents))
    /\ ancestorScore' = InsertByScore(ancestorScore, NewEntry(kind, parents),
                                      Len(mempool) + 1)
    /\ UNCHANGED <<nBlockMaxWeight, pc, inBlock, vtx, nBlockWeight,
                   nBlockSigOpsCost, nBlockTx, nFees, mapModifiedTx, failedTx,
                   mi, nConsecutiveFailed, sortedEntries, package, evalLog>>
    /\ UNCHANGED outsideMiner

\* a transaction whose weight exceeds what an assembler built with
\* nBlockMaxWeight = 6001 has left after the coinbase reserve
BulkKind == [size |-> 1000, fee |-> 20000, sigops |-> 0, final |-> TRUE]

\* the entry addUnchecked builds for a transaction without in-mempool parents
RootEntry(kind) ==
    [size |-> kind.size, fee |-> kind.fee, sigops |-> kind.sigops,
     final |-> kind.final, parents |-> {}, ancestors |-> {},
     nCountWithAncestors |-> 1,
     nSizeWithAncestors |-> kind.size,
     nModFeesWithAncestors |-> kind.fee,
     nSigOpCostWithAncestors |-> kind.sigops]

\* the entry addUnchecked builds for a transaction whose only parent is
\* the entry `parent` with txid p
ChildEntry(kind, p, parent) ==
    [size |-> kind.size, fee |-> kind.fee, sigops |-> kind.sigops,
     final |-> kind.final, parents |-> {p}, ancestors |-> {p} \cup parent.ancestors,
     nCountWithAncestors |-> parent.nCountWithAncestors + 1,
     nSizeWithAncestors |-> parent.nSizeWithAncestors + kind.size,
     nModFeesWithAncestors |-> parent.nModFeesWithAncestors + kind.fee,
     nSigOpCostWithAncestors |-> parent.nSigOpCostWithAncestors + kind.sigops]

\* a mempool of n oversized transactions followed by at most two others,
\* the second either independent or a child of the first
BulkPools(n) ==
    LET bulk == [i \in 1..n |-> RootEntry(BulkKind)]
    IN  {bulk}
        \cup {Append(bulk, RootEntry(k)) : k \in TxKinds}
        \cup {bulk \o <<RootEntry(k1), RootEntry(k2)>> : k1, k2 \in TxKinds}
        \cup {bulk \o <<RootEntry(k1), ChildEntry(k2, n + 1, RootEntry(k1))>> :
                 k1, k2 \in TxKinds}

\* the ancestor_score index of `pool` after the entry with txid id is inserted
InsertIdByScore(pool, order, id) ==
    LET ahead == {k \in 1..Len(order) :
                    CompareTxMemPoolEntryByAncestorFee(pool[order[k]], order[k],
                                                       pool[id], id)}
        n == Cardinality(ahead)
    IN  SubSeq(order, 1, n) \o <<id>> \o SubSeq(order, n + 1, Len(order))

\* the ancestor_score index of a pool of BulkPools(n): the n equal entries
\* sort by txid, the others are inserted in the order they were added
BulkOrder(pool, n) ==
    LET o0 == [i \in 1..n |-> i]
        o1 == IF Len(pool) > n THEN InsertIdByScore(pool, o0, n + 1) ELSE o0
    IN  IF Len(pool) > n + 1 THEN InsertIdByScore(pool, o1, n + 2) ELSE o1

(***************************************************************************)
(* Block-template assembler (miner.cpp)                                    *)
(***************************************************************************)
\* BlockAssembler::BlockAssembler(params, options)
ClampMaxWeight(optMaxWeight) ==
    Max(4000, Min(MAX_BLOCK_WEIGHT - 4000, optMaxWeight))

blockMinFeeRate == DEFAULT_BLOCK_MIN_TX_FEE

\* a freshly constructed assembler over an empty mempool
MinerInit ==
    /\ mempool = << >>
    /\ ancestorScore = << >>
    /\ nBlockMaxWeight \in {ClampMaxWeight(o) : o \in MaxWeightOptions}
    /\ pc = "idle"
    /\ inBlock = {}
    /\ vtx = << >>
    /\ nBlockWeight = 0
    /\ nBlockSigOpsCost = 0
    /\ nBlockTx = 0
    /\ nFees = 0
    /\ mapModifiedTx = << >>
    /\ failedTx = {}
    /\ mi = 1
    /\ nConsecutiveFailed = 0
    /\ sortedEntries = << >>
    /\ package = {}
    /\ evalLog = << >>
    /\ LocksFree
    /\ TemplateIdle

\* TestPackage with the weight test left out
TestPackage_SigOpsOnly(packageSize, packageSigOpsCost) ==
    nBlockSigOpsCost + packageSigOpsCost < MAX_BLOCK_SIGOPS_COST

TestPackage(packageSize, packageSigOpsCost) ==
    IF nBlockWeight + WITNESS_SCALE_FACTOR * packageSize >= nBlockMaxWeight
    THEN FALSE
    ELSE IF nBlockSigOpsCost + packageSigOpsCost >= MAX_BLOCK_SIGOPS_COST
    THEN FALSE
    ELSE TRUE

TestPackageTransactions(pkg) == \A it \in pkg : IsFinalTx(it)

\* onlyUnconfirmed: drop what is already in the block
onlyUnconfirmed(testSet) == {it \in testSet : it \notin inBlock}

\* CTxMemPoolModifiedEntry(entry): starts from the mempool aggregates
CTxMemPoolModifiedEntry(it) ==
    [nSizeWithAncestors |-> GetSizeWithAncestors(it),
     nModFeesWithAncestors |-> GetModFeesWithAncestors(it),
     nSigOpCostWithAncestors |-> GetSigOpCostWithAncestors(it)]

\* update_for_parent_inclusion that leaves the fees as they were
SubtractAdded_KeepFees(e, added) ==
    [nSizeWithAncestors |-> e.nSizeWithAncestors - SizeOf(added),
     nModFeesWithAncestors |-> e.nModFeesWithAncestors,
     nSigOpCostWithAncestors |-> e.nSigOpCostWithAncestors - SigOpsOf(added)]

\* update_for_parent_inclusion, applied for every entry of `added`
SubtractAdded(e, added) ==
    [nSizeWithAncestors |-> e.nSizeWithAncestors - SizeOf(added),
     nModFeesWithAncestors |-> e.nModFeesWithAncestors - FeesOf(added),
     nSigOpCostWithAncestors |-> e.nSigOpCostWithAncestors - SigOpsOf(added)]

\* the modified set after UpdatePackagesForAdded(alreadyAdded, map)
UpdatePackagesForAdded(alreadyAdded, map) ==
    LET touched == (UNION {CalculateDescendants(it) : it \in alreadyAdded})
                       \ alreadyAdded
    IN  [desc \in (DOMAIN map) \cup touched |->
            IF desc \in touched
            THEN SubtractAdded(IF desc \in DOMAIN map THEN map[desc]
                                ELSE CTxMemPoolModifiedEntry(desc),
                               {it \in alreadyAdded : desc \in CalculateDescendants(it)})
            ELSE map[desc]]

\* mapModifiedTx.erase(it)
EraseModified(map, it) == [d \in (DOMAIN map) \ {it} |-> map[d]]

\* SkipMapTxEntry without the failedTx test
SkipMapTxEntry_NoFailed(it) ==
    it \in DOMAIN mapModifiedTx \/ it \in inBlock

SkipMapTxEntry(it) ==
    it \in DOMAIN mapModifiedTx \/ it \in inBlock \/ it \in failedTx

\* CompareModifiedEntry: TRUE when entry a (of iterator ia) sorts before b
CompareModifiedEntry(a, ia, b, ib) ==
    LET f1 == a.nModFeesWithAncestors * b.nSizeWithAncestors
        f2 == b.nModFeesWithAncestors * a.nSizeWithAncestors
    IN  IF f1 = f2 THEN ia < ib ELSE f1 > f2

\* mapModifiedTx.get<ancestor_score>().begin()
BestModified ==
    CHOOSE it \in DOMAIN mapModifiedTx :
        \A o \in (DOMAIN mapModifiedTx) \ {it} :
            CompareModifiedEntry(mapModifiedTx[it], it, mapModifiedTx[o], o)

\* SortForBlock with the comparison turned round: most ancestors first
SortForBlock_Descending(pkg) ==
    LET before(a, b) ==
            \/ GetCountWithAncestors(a) > GetCountWithAncestors(b)
            \/ GetCountWithAncestors(a) = GetCountWithAncestors(b) /\ a < b
    IN  [k \in 1..Cardinality(pkg) |->
            CHOOSE it \in pkg : Cardinality({o \in pkg : before(o, it)}) = k - 1]

\* CompareTxIterByAncestorCount, then std::sort
SortForBlock(pkg) ==
    LET before(a, b) ==
            \/ GetCountWithAncestors(a) < GetCountWithAncestors(b)
            \/ GetCountWithAncestors(a) = GetCountWithAncestors(b) /\ a < b
    IN  [k \in 1..Cardinality(pkg) |->
            CHOOSE it \in pkg : Cardinality({o \in pkg : before(o, it)}) = k - 1]

AtMapTxEnd == mi > Len(mempool)

\* the candidate of one pass through the loop of addPackageTxs
fUsingModified ==
    IF AtMapTxEnd THEN TRUE
    ELSE /\ DOMAIN mapModifiedTx # {}
         /\ CompareModifiedEntry(mapModifiedTx[BestModified], BestModified,
                                 CTxMemPoolModifiedEntry(AncestorScoreAt(mi)),
                                 AncestorScoreAt(mi))

iter == IF fUsingModified THEN BestModified ELSE AncestorScoreAt(mi)

miNext == IF fUsingModified THEN mi ELSE mi + 1

packageSize ==
    IF fUsingModified THEN mapModifiedTx[iter].nSizeWithAncestors
    ELSE GetSizeWithAncestors(iter)

packageFees ==
    IF fUsingModified THEN mapModifiedTx[iter].nModFeesWithAncestors
    ELSE GetModFeesWithAncestors(iter)

packageSigOpsCost ==
    IF fUsingModified THEN mapModifiedTx[iter].nSigOpCostWithAncestors
    ELSE GetSigOpCostWithAncestors(iter)

\* CalculateMemPoolAncestors, onlyUnconfirmed, insert(iter)
ancestors == onlyUnconfirmed(Ancestors(iter)) \cup {iter}

Evaluated(outcome, pkg) ==
    [iter |-> iter, fUsingModified |-> fUsingModified, outcome |-> outcome,
     packageSize |-> packageSize, packageFees |-> packageFees,
     packageSigOpsCost |-> packageSigOpsCost, package |-> pkg,
     wasFailed |-> iter \in failedTx, wasInBlock |-> iter \in inBlock]

\* the clock values and the number of template builds followed
MaxClock == 16

MaxBuilds == 2

\* kernel.h is not among the sources: the granularity of stake timestamps
STAKE_TIMESTAMP_MASK == 15

\* txProofTime &= ~STAKE_TIMESTAMP_MASK, for a time that is not negative
MaskStakeTime(nTime) == nTime - (nTime % (STAKE_TIMESTAMP_MASK + 1))

\* CBlockIndex::GetPastTimeLimit is not among the sources: block k of the
\* chain followed carries the time 8 * k
GetPastTimeLimit(tip) == 8 * tip

\* UpdateTime: the time the header carries afterwards
UpdateTime(nOldTime, tip, now) ==
    LET nNewTime == Max(GetPastTimeLimit(tip) + 1, now)
    IN  IF nOldTime < nNewTime THEN nNewTime ELSE nOldTime

\* CTxOut::SetEmpty
EmptyTxOut == [nValue |-> 0, scriptPubKey |-> "empty"]

\* the coinbase value that keeps the subsidy and leaves out the fees
CoinbaseValue_SubsidyOnly(fees, height) == [nFees |-> 0, subsidyAt |-> height]

\* nFees + GetBlockSubsidy(nHeight, ...): GetBlockSubsidy is not among the
\* sources, the sum is kept as its two terms
CoinbaseValue(fees, height) == [nFees |-> fees, subsidyAt |-> height]

\* the coinbase transaction CreateNewBlock builds
CoinbaseTx(fPoS, fees, nHeight, nTime) ==
    [vin |-> <<[prevout |-> "null", scriptSig |-> <<nHeight, "OP_0">>]>>,
     vout |-> <<IF fPoS THEN EmptyTxOut
                ELSE [nValue |-> CoinbaseValue(fees, nHeight),
                      scriptPubKey |-> "scriptPubKeyIn"]>>,
     nTime |-> nTime]

\* the coinstake placeholder: vout.resize(2), the first output empty
CoinstakeTx ==
    [vin |-> << >>,
     vout |-> <<EmptyTxOut, [nValue |-> -1, scriptPubKey |-> "scriptPubKeyIn"]>>,
     nTime |-> 0]

\* GenerateCoinbaseCommitment (validation.cpp, not among the sources): with
\* segwit enabled the coinbase gets the commitment output of value 0 that
\* GetWitnessCommitmentIndexPos and CheckFirstCoinstakeOutput look for
GenerateCoinbaseCommitment(coinbase) ==
    IF powParams.nSegwitEnabled
    THEN [coinbase EXCEPT !.vout =
             Append(coinbase.vout, [nValue |-> 0, scriptPubKey |-> "commitment"])]
    ELSE coinbase

\* pblock->nNonce that counts the builds
BlockNonce_Counter == Len(builds)

\* pblock->nNonce = 0
BlockNonce == 0

\* the dummy transactions at the head of vtx
Placeholders(fPoS) == IF fPoS THEN <<0, 0>> ELSE <<0>>

\* the transactions AddToBlock has put behind the placeholders
Selected == SubSeq(vtx, Len(Placeholders(fProofOfStakeArg)) + 1, Len(vtx))

\* the template CreateNewBlock returns, from the coinbase on
BlockTemplate(now) ==
    LET nHeight == pindexPrev + 1
        coinbase == GenerateCoinbaseCommitment(
                        CoinbaseTx(fProofOfStakeArg, nFees, nHeight, txProofTime))
    IN  [op |-> "CreateNewBlock",
         vtx |-> (IF fProofOfStakeArg THEN <<coinbase, CoinstakeTx>> ELSE <<coinbase>>)
                     \o Selected,
         vTxFees |-> <<-nFees>> \o [k \in 1..Len(Selected) |-> GetFee(Selected[k])],
         vTxSigOpsCost |-> <<0>> \o [k \in 1..Len(Selected) |-> GetSigOpCost(Selected[k])],
         hashPrevBlock |-> pindexPrev,
         nTime |-> IF fProofOfStakeArg THEN txProofTime
                   ELSE UpdateTime(txProofTime, pindexPrev, now),
         nNonce |-> BlockNonce,
         nBits |-> [pindexLast |-> pindexPrev, fProofOfStake |-> fProofOfStakeArg]]

\* CreateNewBlock(scriptPubKeyIn, fProofOfStake) up to LOCK2: resetBlock and
\* the placeholders of the coinbase and, for proof of stake, of the coinstake
CreateNewBlockFor(fPoS) ==
    /\ pc = "idle"
    /\ inBlock' = {}
    /\ nBlockWeight' = 4000
    /\ nBlockSigOpsCost' = 400
    /\ nBlockTx' = 0
    /\ nFees' = 0
    /\ vtx' = Placeholders(fPoS)
    /\ fProofOfStakeArg' = fPoS
    /\ pblocktemplate' = NoTemplate
    /\ pc' = "lockMain"
    /\ UNCHANGED <<mempool, ancestorScore, nBlockMaxWeight, mapModifiedTx, failedTx,
                   mi, nConsecutiveFailed, sortedEntries, package, evalLog>>
    /\ UNCHANGED <<adjustedTime, txProofTime, builds>>
    /\ UNCHANGED lockVars
    /\ UNCHANGED outsideTemplate

\* CreateNewBlock(scriptPubKeyIn, false): a proof-of-work template
CreateNewBlock == CreateNewBlockFor(FALSE)

\* LOCK2(cs_main, mempool.cs): the first lock, once it is free
LockMain ==
    /\ pc = "lockMain"
    /\ csMain = "none"
    /\ csMain' = "assembler"
    /\ pc' = "lockMempool"
    /\ UNCHANGED <<mempool, ancestorScore, nBlockMaxWeight, inBlock, vtx, nBlockWeight,
                   nBlockSigOpsCost, nBlockTx, nFees, mapModifiedTx, failedTx,
                   mi, nConsecutiveFailed, sortedEntries, package, evalLog>>
    /\ UNCHANGED <<csMempool, chainTip, pindexPrev>>
    /\ UNCHANGED outsideAssembler

\* LOCK2 without its second lock: the mempool is read unlocked
LockMempool_NotTaken ==
    /\ pc = "lockMempool"
    /\ pindexPrev' = chainTip
    /\ mapModifiedTx' = UpdatePackagesForAdded(inBlock, << >>)
    /\ failedTx' = {}
    /\ mi' = 1
    /\ nConsecutiveFailed' = 0
    /\ pc' = "loop"
    /\ UNCHANGED <<mempool, ancestorScore, nBlockMaxWeight, inBlock, vtx, nBlockWeight,
                   nBlockSigOpsCost, nBlockTx, nFees, sortedEntries, package, evalLog>>
    /\ UNCHANGED <<csMain, csMempool, chainTip>>
    /\ txProofTime' = (IF fProofOfStakeArg THEN MaskStakeTime(adjustedTime)
                       ELSE adjustedTime)
    /\ UNCHANGED <<fProofOfStakeArg, adjustedTime, pblocktemplate, builds>>
    /\ UNCHANGED outsideTemplate

\* LOCK2(cs_main, mempool.cs): the second lock, once it is free; then
\* pindexPrev = chainActive.Tip() and the start of addPackageTxs:
\* UpdatePackagesForAdded(inBlock, mapModifiedTx), mi = begin()
LockMempool ==
    /\ pc = "lockMempool"
    /\ csMempool = "none"
    /\ csMempool' = "assembler"
    /\ pindexPrev' = chainTip
    /\ mapModifiedTx' = UpdatePackagesForAdded(inBlock, << >>)
    /\ failedTx' = {}
    /\ mi' = 1
    /\ nConsecutiveFailed' = 0
    /\ pc' = "loop"
    /\ UNCHANGED <<mempool, ancestorScore, nBlockMaxWeight, inBlock, vtx, nBlockWeight,
                   nBlockSigOpsCost, nBlockTx, nFees, sortedEntries, package, evalLog>>
    /\ UNCHANGED <<csMain, chainTip>>
    /\ txProofTime' = (IF fProofOfStakeArg THEN MaskStakeTime(adjustedTime)
                       ELSE adjustedTime)
    /\ UNCHANGED <<fProofOfStakeArg, adjustedTime, pblocktemplate, builds>>
    /\ UNCHANGED outsideTemplate

LoopCondition == ~AtMapTxEnd \/ DOMAIN mapModifiedTx # {}

Skipping == ~AtMapTxEnd /\ SkipMapTxEntry(AncestorScoreAt(mi))

\* while (...) is false: addPackageTxs returns
LoopEnd ==
    /\ pc = "loop"
    /\ ~LoopCondition
    /\ pc' = "coinbase"
    /\ UNCHANGED <<mempool, ancestorScore, nBlockMaxWeight, inBlock, vtx, nBlockWeight,
                   nBlockSigOpsCost, nBlockTx, nFees, mapModifiedTx, failedTx,
                   mi, nConsecutiveFailed, sortedEntries, package, evalLog>>
    /\ UNCHANGED outsideMiner

\* ++mi; continue
SkipEntry ==
    /\ pc = "loop"
    /\ LoopCondition
    /\ Skipping
    /\ mi' = mi + 1
    /\ UNCHANGED <<mempool, ancestorScore, nBlockMaxWeight, pc, inBlock, vtx, nBlockWeight,
                   nBlockSigOpsCost, nBlockTx, nFees, mapModifiedTx, failedTx,
                   nConsecutiveFailed, sortedEntries, package, evalLog>>
    /\ UNCHANGED outsideMiner

Evaluating == pc = "loop" /\ LoopCondition /\ ~Skipping

\* the fee test against the size of the candidate alone
FeeTooLow_OwnSize == packageFees < FeeRateGetFee(blockMinFeeRate, GetTxSize(iter))

FeeTooLow == packageFees < FeeRateGetFee(blockMinFeeRate, packageSize)

\* packageFees < blockMinFeeRate.GetFee(packageSize): return
ReturnLowFee ==
    /\ Evaluating
    /\ FeeTooLow
    /\ mi' = miNext
    /\ evalLog' = Append(evalLog, Evaluated("lowfee", {}))
    /\ pc' = "coinbase"
    /\ UNCHANGED <<mempool, ancestorScore, nBlockMaxWeight, inBlock, vtx, nBlockWeight,
                   nBlockSigOpsCost, nBlockTx, nFees, mapModifiedTx, failedTx,
                   nConsecutiveFailed, sortedEntries, package>>
    /\ UNCHANGED outsideMiner

\* FailPackage giving up one rejection early
FailPackage_GiveUpEarly ==
    /\ Evaluating
    /\ ~FeeTooLow
    /\ ~TestPackage(packageSize, packageSigOpsCost)
    /\ mi' = miNext
    /\ IF fUsingModified
       THEN /\ mapModifiedTx' = EraseModified(mapModifiedTx, iter)
            /\ failedTx' = failedTx \cup {iter}
       ELSE UNCHANGED <<mapModifiedTx, failedTx>>
    /\ nConsecutiveFailed' = nConsecutiveFailed + 1
    /\ pc' = IF /\ nConsecutiveFailed + 1 >= MAX_CONSECUTIVE_FAILURES
                /\ nBlockWeight > nBlockMaxWeight - 4000
             THEN "coinbase" ELSE "loop"
    /\ evalLog' = Append(evalLog, Evaluated("failpackage", {}))
    /\ UNCHANGED <<mempool, ancestorScore, nBlockMaxWeight, inBlock, vtx, nBlockWeight,
                   nBlockSigOpsCost, nBlockTx, nFees, sortedEntries, package>>
    /\ UNCHANGED outsideMiner

\* !TestPackage(packageSize, packageSigOpsCost)
FailPackage ==
    /\ Evaluating
    /\ ~FeeTooLow
    /\ ~TestPackage(packageSize, packageSigOpsCost)
    /\ mi' = miNext
    /\ IF fUsingModified
       THEN /\ mapModifiedTx' = EraseModified(mapModifiedTx, iter)
            /\ failedTx' = failedTx \cup {iter}
       ELSE UNCHANGED <<mapModifiedTx, failedTx>>
    /\ nConsecutiveFailed' = nConsecutiveFailed + 1
    /\ pc' = IF /\ nConsecutiveFailed + 1 > MAX_CONSECUTIVE_FAILURES
                /\ nBlockWeight > nBlockMaxWeight - 4000
             THEN "coinbase" ELSE "loop"
    /\ evalLog' = Append(evalLog, Evaluated("failpackage", {}))
    /\ UNCHANGED <<mempool, ancestorScore, nBlockMaxWeight, inBlock, vtx, nBlockWeight,
                   nBlockSigOpsCost, nBlockTx, nFees, sortedEntries, package>>
    /\ UNCHANGED outsideMiner

\* FailFinal leaving the rejected entry in the modified set
FailFinal_KeepModified ==
    /\ Evaluating
    /\ ~FeeTooLow
    /\ TestPackage(packageSize, packageSigOpsCost)
    /\ ~TestPackageTransactions(ancestors)
    /\ mi' = miNext
    /\ UNCHANGED <<mapModifiedTx, failedTx>>
    /\ evalLog' = Append(evalLog, Evaluated("failfinal", ancestors))
    /\ UNCHANGED <<mempool, ancestorScore, nBlockMaxWeight, pc, inBlock, vtx, nBlockWeight,
                   nBlockSigOpsCost, nBlockTx, nFees, nConsecutiveFailed,
                   sortedEntries, package>>
    /\ UNCHANGED outsideMiner

\* !TestPackageTransactions(ancestors)
FailFinal ==
    /\ Evaluating
    /\ ~FeeTooLow
    /\ TestPackage(packageSize, packageSigOpsCost)
    /\ ~TestPackageTransactions(ancestors)
    /\ mi' = miNext
    /\ IF fUsingModified
       THEN /\ mapModifiedTx' = EraseModified(mapModifiedTx, iter)
            /\ failedTx' = failedTx \cup {iter}
       ELSE UNCHANGED <<mapModifiedTx, failedTx>>
    /\ evalLog' = Append(evalLog, Evaluated("failfinal", ancestors))
    /\ UNCHANGED <<mempool, ancestorScore, nBlockMaxWeight, pc, inBlock, vtx, nBlockWeight,
                   nBlockSigOpsCost, nBlockTx, nFees, nConsecutiveFailed,
                   sortedEntries, package>>
    /\ UNCHANGED outsideMiner

\* the package will make it in: SortForBlock
SelectPackage ==
    /\ Evaluating
    /\ ~FeeTooLow
    /\ TestPackage(packageSize, packageSigOpsCost)
    /\ TestPackageTransactions(ancestors)
    /\ mi' = miNext
    /\ nConsecutiveFailed' = 0
    /\ sortedEntries' = SortForBlock(ancestors)
    /\ package' = ancestors
    /\ evalLog' = Append(evalLog, Evaluated("added", ancestors))
    /\ pc' = "adding"
    /\ UNCHANGED <<mempool, ancestorScore, nBlockMaxWeight, inBlock, vtx, nBlockWeight,
                   nBlockSigOpsCost, nBlockTx, nFees, mapModifiedTx, failedTx>>
    /\ UNCHANGED outsideMiner

\* AddToBlock(sortedEntries[i]); mapModifiedTx.erase(sortedEntries[i])
AddToBlock ==
    /\ pc = "adding"
    /\ sortedEntries # << >>
    /\ LET it == Head(sortedEntries)
       IN  /\ vtx' = Append(vtx, it)
           /\ nBlockWeight' = nBlockWeight + GetTxWeight(it)
           /\ nBlockTx' = nBlockTx + 1
           /\ nBlockSigOpsCost' = nBlockSigOpsCost + GetSigOpCost(it)
           /\ nFees' = nFees + GetFee(it)
           /\ inBlock' = inBlock \cup {it}
           /\ mapModifiedTx' = EraseModified(mapModifiedTx, it)
    /\ sortedEntries' = Tail(sortedEntries)
    /\ UNCHANGED <<mempool, ancestorScore, nBlockMaxWeight, pc, failedTx, mi,
                   nConsecutiveFailed, package, evalLog>>
    /\ UNCHANGED outsideMiner

\* nDescendantsUpdated += UpdatePackagesForAdded(ancestors, mapModifiedTx)
PackageAdded ==
    /\ pc = "adding"
    /\ sortedEntries = << >>
    /\ mapModifiedTx' = UpdatePackagesForAdded(package, mapModifiedTx)
    /\ package' = {}
    /\ pc' = "loop"
    /\ UNCHANGED <<mempool, ancestorScore, nBlockMaxWeight, inBlock, vtx, nBlockWeight,
                   nBlockSigOpsCost, nBlockTx, nFees, failedTx, mi,
                   nConsecutiveFailed, sortedEntries, evalLog>>
    /\ UNCHANGED outsideMiner

\* the rest of CreateNewBlock: the template is complete, and the locks are
\* released when the function returns
FinishBlock ==
    /\ pc = "coinbase"
    /\ pc' = "done"
    /\ csMain' = "none"
    /\ csMempool' = "none"
    /\ UNCHANGED <<mempool, ancestorScore, nBlockMaxWeight, inBlock, vtx, nBlockWeight,
                   nBlockSigOpsCost, nBlockTx, nFees, mapModifiedTx, failedTx,
                   mi, nConsecutiveFailed, sortedEntries, package, evalLog>>
    /\ UNCHANGED <<chainTip, pindexPrev>>
    /\ pblocktemplate' = BlockTemplate(adjustedTime)
    /\ builds' = Append(builds, [mempool |-> mempool, tip |-> pindexPrev,
                                 fProofOfStake |-> fProofOfStakeArg,
                                 txProofTime |-> txProofTime, now |-> adjustedTime,
                                 template |-> BlockTemplate(adjustedTime)])
    /\ UNCHANGED <<fProofOfStakeArg, adjustedTime, txProofTime>>
    /\ UNCHANGED outsideTemplate

MinerStart == MinerInit /\ GovInit /\ OthersInit

MinerNext ==
    \/ pc = "idle" /\ \E kind \in TxKinds : \E parents \in SUBSET TxIds : AddUnchecked(kind, parents)
    \/ CreateNewBlock
    \/ LockMain
    \/ LockMempool
    \/ LoopEnd
    \/ SkipEntry
    \/ ReturnLowFee
    \/ FailPackage
    \/ FailFinal
    \/ SelectPackage
    \/ AddToBlock
    \/ PackageAdded
    \/ FinishBlock

SpecMiner == MinerStart /\ [][MinerNext]_vars

\* the mempool size and the chain height up to which other threads act
\* while a template is built
MaxPoolLocked == 2

MaxTip == 2

\* another thread connects a block: the tip moves, under cs_main
TipChange ==
    /\ csMain = "none"
    /\ chainTip < MaxTip
    /\ chainTip' = chainTip + 1
    /\ UNCHANGED <<csMain, csMempool, pindexPrev>>
    /\ UNCHANGED <<minerVars, outsideAssembler>>

\* a template build with other threads adding to the mempool and moving the
\* tip whenever the locks let them
LocksNext ==
    \/ Len(mempool) < MaxPoolLocked
          /\ \E kind \in TxKinds : \E parents \in SUBSET TxIds : AddUnchecked(kind, parents)
    \/ TipChange
    \/ CreateNewBlock
    \/ LockMain
    \/ LockMempool
    \/ LoopEnd
    \/ SkipEntry
    \/ ReturnLowFee
    \/ FailPackage
    \/ FailFinal
    \/ SelectPackage
    \/ AddToBlock
    \/ PackageAdded
    \/ FinishBlock

SpecMinerLocks == MinerStart /\ [][LocksNext]_vars

\* the clock of the node moves on; CreateNewBlock reads it under the locks
\* and again in UpdateTime, and a tick in between is seen at the second
Tick ==
    /\ pc \in {"idle", "lockMempool", "coinbase"}
    /\ adjustedTime < MaxClock
    /\ adjustedTime' = adjustedTime + 8
    /\ UNCHANGED <<fProofOfStakeArg, txProofTime, pblocktemplate, builds>>
    /\ UNCHANGED <<minerVars, lockVars, outsideTemplate>>

\* the caller is done with the template; the next call constructs a new
\* BlockAssembler
NextBuild ==
    /\ pc = "done"
    /\ Len(builds) < MaxBuilds
    /\ pc' = "idle"
    /\ inBlock' = {}
    /\ vtx' = << >>
    /\ nBlockWeight' = 0
    /\ nBlockSigOpsCost' = 0
    /\ nBlockTx' = 0
    /\ nFees' = 0
    /\ mapModifiedTx' = << >>
    /\ failedTx' = {}
    /\ mi' = 1
    /\ nConsecutiveFailed' = 0
    /\ evalLog' = << >>
    /\ UNCHANGED <<mempool, ancestorScore, nBlockMaxWeight, sortedEntries, package>>
    /\ UNCHANGED lockVars
    /\ UNCHANGED outsideAssembler

\* a node of the main chain or of the regression-test chain with a freshly
\* constructed assembler of the largest block weight
TemplateStart ==
    /\ MinerInit
    /\ nBlockMaxWeight = ClampMaxWeight(2 * MAX_BLOCK_WEIGHT)
    /\ GovInit /\ ThreadsInit /\ CacheEmpty /\ CostInit /\ AmountIdle /\ WorkersIdle /\ HandOffIdle /\ BannedIdle
    /\ powParams \in {CMainParams, CRegTestParams}
    /\ blockIndex = << >>
    /\ powLast = NoPowCall
    /\ powCheck = NoPowCall

\* template builds of both kinds, one after the other, while other threads
\* add to the mempool and move the tip whenever the locks let them and the
\* clock runs
TemplateNext ==
    \/ Len(mempool) < MaxPoolLocked
          /\ \E kind \in TxKinds : \E parents \in SUBSET TxIds : AddUnchecked(kind, parents)
    \/ TipChange
    \/ Tick
    \/ \E fPoS \in BOOLEAN : CreateNewBlockFor(fPoS)
    \/ LockMain
    \/ LockMempool
    \/ LoopEnd
    \/ SkipEntry
    \/ ReturnLowFee
    \/ FailPackage
    \/ FailFinal
    \/ SelectPackage
    \/ AddToBlock
    \/ PackageAdded
    \/ FinishBlock
    \/ NextBuild

SpecTemplate == TemplateStart /\ [][TemplateNext]_vars

\* the record addPackageTxs leaves for the k-th oversized entry, taken from
\* the mempool order and rejected by TestPackage
BulkRejected(k) ==
    [iter |-> k, fUsingModified |-> FALSE, outcome |-> "failpackage",
     packageSize |-> BulkKind.size, packageFees |-> BulkKind.fee,
     packageSigOpsCost |-> BulkKind.sigops, package |-> {},
     wasFailed |-> FALSE, wasInBlock |-> FALSE]

\* a template build of an assembler with nBlockMaxWeight = 6001 over a
\* mempool that starts with MAX_CONSECUTIVE_FAILURES or
\* MAX_CONSECUTIVE_FAILURES + 1 oversized transactions, at the point where
\* the loop of addPackageTxs has rejected all but the last two or three of
\* them: every pass so far took the next entry of the mempool order, found
\* its fee sufficient and failed TestPackage
BulkStart ==
    /\ \E n \in {MAX_CONSECUTIVE_FAILURES, MAX_CONSECUTIVE_FAILURES + 1} :
          /\ mempool \in BulkPools(n)
          /\ ancestorScore = BulkOrder(mempool, n)
    /\ nBlockMaxWeight = ClampMaxWeight(6001)
    /\ pc = "loop"
    /\ inBlock = {}
    /\ vtx = <<0>>
    /\ nBlockWeight = 4000
    /\ nBlockSigOpsCost = 400
    /\ nBlockTx = 0
    /\ nFees = 0
    /\ mapModifiedTx = << >>
    /\ failedTx = {}
    /\ mi = MAX_CONSECUTIVE_FAILURES - 1
    /\ nConsecutiveFailed = MAX_CONSECUTIVE_FAILURES - 2
    /\ sortedEntries = << >>
    /\ package = {}
    /\ evalLog = [k \in 1..(MAX_CONSECUTIVE_FAILURES - 2) |-> BulkRejected(k)]
    /\ csMain = "assembler"
    /\ csMempool = "assembler"
    /\ chainTip = 0
    /\ pindexPrev = 0
    /\ TemplateIdle
    /\ GovInit
    /\ OthersInit

BulkNext ==
    \/ LoopEnd
    \/ SkipEntry
    \/ ReturnLowFee
    \/ FailPackage
    \/ FailFinal
    \/ SelectPackage
    \/ AddToBlock
    \/ PackageAdded
    \/ FinishBlock

SpecMinerBulk == BulkStart /\ [][BulkNext]_vars

(***************************************************************************)
(* Block-template assembler: the claims                                    *)
(***************************************************************************)
\* the index of transaction it in the block, 0 when it is not in the block
IndexInBlock(it) ==
    IF \E k \in 1..Len(vtx) : vtx[k] = it
    THEN CHOOSE k \in 1..Len(vtx) : vtx[k] = it
    ELSE 0

\* the mempool transactions of the block
BlockTxs == {vtx[k] : k \in 1..Len(vtx)} \ {0}

Rejected(e) == e.outcome \in {"failpackage", "failfinal"}

\* C7: in every template, for every included mempool transaction X each
\* in-mempool ancestor of X is included too and stands at a smaller index.
C7_AncestorsPrecede ==
    \A k \in 1..Len(vtx) :
        vtx[k] # 0 =>
            \A a \in Ancestors(vtx[k]) :
                /\ IndexInBlock(a) # 0
                /\ IndexInBlock(a) < k

C7_Witness ==
    /\ pc = "done"
    /\ \E it \in BlockTxs :
          /\ Cardinality(Ancestors(it)) >= 2
          /\ Cardinality(mempool[it].parents) = 2

\* C8: after every AddToBlock the weight of the included transactions plus
\* the 4000 reserved stays within nBlockMaxWeight and their sigop cost plus
\* the 400 reserved within MAX_BLOCK_SIGOPS_COST.
C8_WithinBudget ==
    pc \in {"loop", "adding", "coinbase", "done"} =>
        /\ nBlockWeight = 4000 + WeightOf(BlockTxs)
        /\ nBlockSigOpsCost = 400 + SigOpsOf(BlockTxs)
        /\ 4000 + WeightOf(BlockTxs) <= nBlockMaxWeight
        /\ 400 + SigOpsOf(BlockTxs) <= MAX_BLOCK_SIGOPS_COST

C8_Witness ==
    /\ pc = "adding"
    /\ Len(vtx) >= 2
    /\ sortedEntries # << >>
    /\ \E k \in 1..Len(evalLog) : evalLog[k].outcome = "failpackage"
    /\ nBlockWeight + 4 * GetTxSize(Head(sortedEntries)) = nBlockMaxWeight - 1

\* C9: no package is added whose fee, summed over the transaction and its
\* ancestors not yet in the block, is below blockMinFeeRate.GetFee of the size
\* of that set; a zero-fee transaction and its only child, whose combined fee
\* is just below the minimum for their combined size, are both left out.
C9_NoPackageBelowMinFee ==
    /\ \A k \in 1..Len(evalLog) :
          evalLog[k].outcome = "added" =>
              FeesOf(evalLog[k].package) >=
                  FeeRateGetFee(blockMinFeeRate, SizeOf(evalLog[k].package))
    /\ \A p, c \in TxIds :
          (/\ Ancestors(p) = {}
           /\ GetModifiedFee(p) = 0
           /\ Ancestors(c) = {p}
           /\ CalculateDescendants(p) = {p, c}
           /\ GetModifiedFee(c) =
                 FeeRateGetFee(blockMinFeeRate, GetTxSize(p) + GetTxSize(c)) - 1)
          => (p \notin BlockTxs /\ c \notin BlockTxs)

C9_Witness ==
    /\ pc = "done"
    /\ \E p, c, o \in TxIds :
          /\ Ancestors(p) = {}
          /\ GetModifiedFee(p) = 0
          /\ Ancestors(c) = {p}
          /\ CalculateDescendants(p) = {p, c}
          /\ GetModifiedFee(c) =
                FeeRateGetFee(blockMinFeeRate, GetTxSize(p) + GetTxSize(c)) - 1
          /\ o \in BlockTxs
          /\ p \notin BlockTxs
          /\ c \notin BlockTxs
          /\ evalLog[Len(evalLog)].outcome = "lowfee"

\* C10 as stated: once an entry has been rejected it is recorded as failed and
\* is never evaluated again in that build.
C10_RejectedNeverEvaluatedAgain ==
    \A k \in 1..Len(evalLog) :
        Rejected(evalLog[k]) =>
            /\ evalLog[k].iter \in failedTx
            /\ \A l \in (k + 1)..Len(evalLog) : evalLog[l].iter # evalLog[k].iter

\* C10 as amended: an entry rejected when taken from the modified set is
\* recorded as failed, and no entry taken from the mempool ancestor-score
\* order was recorded as failed or evaluated earlier in the build.
C10_FailedNeverRetakenFromMapTx ==
    \A k \in 1..Len(evalLog) :
        /\ (Rejected(evalLog[k]) /\ evalLog[k].fUsingModified) =>
              evalLog[k].iter \in failedTx
        /\ ~evalLog[k].fUsingModified =>
              /\ ~evalLog[k].wasFailed
              /\ \A j \in 1..(k - 1) : evalLog[j].iter # evalLog[k].iter

C10_Witness ==
    /\ pc = "loop"
    /\ ~AtMapTxEnd
    /\ AncestorScoreAt(mi) \in failedTx
    /\ AncestorScoreAt(mi) \notin inBlock
    /\ AncestorScoreAt(mi) \notin DOMAIN mapModifiedTx
    /\ \E k \in 1..Len(evalLog) :
          /\ evalLog[k].iter = AncestorScoreAt(mi)
          /\ evalLog[k].fUsingModified
          /\ Rejected(evalLog[k])

\* the package of u at the end of a build: u and its ancestors not in the block
PackageOf(u) == onlyUnconfirmed(Ancestors(u)) \cup {u}

\* u and its ancestors and descendants
Family(u) == Ancestors(u) \cup CalculateDescendants(u)

\* the entries that share an ancestor or a descendant with u
RelatedTo(u) == UNION {Family(z) : z \in Family(u)}

\* the entries whose package was rejected by TestPackage in this build
RejectedForBudget ==
    {evalLog[k].iter : k \in {l \in 1..Len(evalLog) : evalLog[l].outcome = "failpackage"}}

\* the package of u meets blockMinFeeRate for its size, fits the remaining
\* budget and is final
Eligible(u) ==
    /\ FeesOf(PackageOf(u)) >= FeeRateGetFee(blockMinFeeRate, SizeOf(PackageOf(u)))
    /\ TestPackage(SizeOf(PackageOf(u)), SigOpsOf(PackageOf(u)))
    /\ TestPackageTransactions(PackageOf(u))

BelowMinAlone(it) == GetModifiedFee(it) < FeeRateGetFee(blockMinFeeRate, GetTxSize(it))

\* C11 as stated: in a complete template no eligible package is left out
\* that is unrelated to a package rejected for the weight or sigops budget,
\* and no eligible package with a member paying less than the minimum on its
\* own is left out.
C11_RejectionDoesNotPoison ==
    pc = "done" =>
        \A u \in TxIds \ BlockTxs :
            Eligible(u) =>
                /\ RejectedForBudget \subseteq RelatedTo(u)
                /\ \A it \in PackageOf(u) : ~BelowMinAlone(it)

\* the build stopped at the break of addPackageTxs
GaveUp ==
    /\ nConsecutiveFailed > MAX_CONSECUTIVE_FAILURES
    /\ nBlockWeight > nBlockMaxWeight - 4000

\* C11 as amended: unless the build gave up after more than
\* MAX_CONSECUTIVE_FAILURES consecutive budget rejections with the block
\* within 4000 weight units of nBlockMaxWeight, a complete template leaves
\* out no eligible package that is unrelated to a package rejected for the
\* budget, and no eligible package with a member paying less than the
\* minimum on its own.
C11_NoPoisonUnlessGaveUp ==
    (pc = "done" /\ ~GaveUp) =>
        \A u \in TxIds \ BlockTxs :
            Eligible(u) =>
                /\ RejectedForBudget \subseteq RelatedTo(u)
                /\ \A it \in PackageOf(u) : ~BelowMinAlone(it)

\* MAX_CONSECUTIVE_FAILURES packages in a row were rejected for the budget
\* and the next one, unrelated to them and with a member paying less than
\* the minimum on its own, was included
C11_Witness ==
    /\ pc = "done"
    /\ Len(evalLog) = MAX_CONSECUTIVE_FAILURES + 1
    /\ \A k \in 1..MAX_CONSECUTIVE_FAILURES : evalLog[k].outcome = "failpackage"
    /\ evalLog[MAX_CONSECUTIVE_FAILURES + 1].outcome = "added"
    /\ evalLog[MAX_CONSECUTIVE_FAILURES + 1].package \subseteq BlockTxs
    /\ \E it \in evalLog[MAX_CONSECUTIVE_FAILURES + 1].package : BelowMinAlone(it)
    /\ RejectedForBudget \cap RelatedTo(evalLog[MAX_CONSECUTIVE_FAILURES + 1].iter) = {}

\* the mempool ancestor aggregates of d minus the contributions of exactly
\* those of its ancestors that are in the block
ExactModified(d) ==
    LET included == Ancestors(d) \cap inBlock
    IN  [nSizeWithAncestors |-> GetSizeWithAncestors(d) - SizeOf(included),
         nModFeesWithAncestors |-> GetModFeesWithAncestors(d) - FeesOf(included),
         nSigOpCostWithAncestors |-> GetSigOpCostWithAncestors(d) - SigOpsOf(included)]

\* between two passes of the loop of addPackageTxs, or after it
BetweenPasses == pc \in {"loop", "coinbase", "done"}

\* a zero-fee parent p with two children: c1 cannot be mined with p, c2 can
ZeroFeeParentScenario(p, c1, c2) ==
    /\ c1 # c2
    /\ Ancestors(p) = {}
    /\ GetModifiedFee(p) = 0
    /\ Ancestors(c1) = {p}
    /\ Ancestors(c2) = {p}
    /\ GetModFeesWithAncestors(c1) <
           FeeRateGetFee(blockMinFeeRate, GetSizeWithAncestors(c1))
    /\ GetModifiedFee(c1) >= FeeRateGetFee(blockMinFeeRate, GetTxSize(c1))
    /\ GetModFeesWithAncestors(c2) >=
           FeeRateGetFee(blockMinFeeRate, GetSizeWithAncestors(c2))

\* C12 as stated: between passes every entry of the modified set carries
\* its mempool ancestor aggregates minus the contributions of exactly its
\* ancestors in the block; and when a zero-fee parent has been included
\* through one child, another child that could not be mined with the parent
\* is included as well if it still fits and is final.
C12_ModifiedAggregatesExact ==
    BetweenPasses =>
        /\ \A d \in DOMAIN mapModifiedTx : mapModifiedTx[d] = ExactModified(d)
        /\ pc = "done" =>
              \A p, c1, c2 \in TxIds :
                  (ZeroFeeParentScenario(p, c1, c2) /\ p \in BlockTxs /\ Eligible(c1))
                      => c1 \in BlockTxs

\* C12 as amended: the aggregates are exact for every entry of the modified
\* set that has not been rejected earlier in the build; an entry that was
\* rejected and inserted again still counts the ancestors that were in the
\* block when it was rejected.
C12_ModifiedAggregatesExactUnlessFailed ==
    BetweenPasses =>
        /\ \A d \in DOMAIN mapModifiedTx :
              IF d \notin failedTx
              THEN mapModifiedTx[d] = ExactModified(d)
              ELSE /\ mapModifiedTx[d].nSizeWithAncestors >
                         ExactModified(d).nSizeWithAncestors
                   /\ mapModifiedTx[d].nSizeWithAncestors < GetSizeWithAncestors(d)
                   /\ mapModifiedTx[d].nModFeesWithAncestors >=
                         ExactModified(d).nModFeesWithAncestors
                   /\ mapModifiedTx[d].nSigOpCostWithAncestors >=
                         ExactModified(d).nSigOpCostWithAncestors
        /\ pc = "done" =>
              \A p, c1, c2 \in TxIds :
                  (ZeroFeeParentScenario(p, c1, c2) /\ p \in BlockTxs /\ Eligible(c1))
                      => c1 \in BlockTxs

\* the zero-fee parent went in with c2, and c1 was then taken from the
\* modified set with its own size and fee and included
C12_Witness ==
    /\ pc = "done"
    /\ \E p, c1, c2 \in TxIds :
          /\ ZeroFeeParentScenario(p, c1, c2)
          /\ {p, c1, c2} \subseteq BlockTxs
          /\ IndexInBlock(c2) < IndexInBlock(c1)
          /\ \E k \in 1..Len(evalLog) :
                /\ evalLog[k].iter = c1
                /\ evalLog[k].fUsingModified
                /\ evalLog[k].outcome = "added"
                /\ evalLog[k].packageSize = GetTxSize(c1)
                /\ evalLog[k].packageFees = GetModifiedFee(c1)

\* a low-fee parent, a high-fee child of it and an independent medium-fee
\* transaction make up the mempool; the parent+child package feerate
\* exceeds the medium transaction's feerate, which exceeds the parent's;
\* everything is final, pays the minimum and fits the block together
FeerateScenario(parent, child, medium) ==
    /\ TxIds = {parent, child, medium}
    /\ Ancestors(parent) = {}
    /\ Ancestors(child) = {parent}
    /\ Ancestors(medium) = {}
    /\ GetModFeesWithAncestors(child) * GetTxSize(medium) >
           GetModifiedFee(medium) * GetSizeWithAncestors(child)
    /\ GetModifiedFee(medium) * GetTxSize(parent) >
           GetModifiedFee(parent) * GetTxSize(medium)
    /\ GetModifiedFee(child) * GetTxSize(medium) >
           GetModifiedFee(medium) * GetTxSize(child)
    /\ GetModifiedFee(medium) >= FeeRateGetFee(blockMinFeeRate, GetTxSize(medium))
    /\ \A it \in TxIds : IsFinalTx(it)
    /\ 4000 + WeightOf(TxIds) < nBlockMaxWeight
    /\ 400 + SigOpsOf(TxIds) < MAX_BLOCK_SIGOPS_COST

\* C13: in that scenario the complete template is ordered coinbase, parent,
\* child, medium.
C13_PackageFeerateOrder ==
    pc = "done" =>
        \A parent, child, medium \in TxIds :
            FeerateScenario(parent, child, medium) =>
                vtx = <<0, parent, child, medium>>

\* the scenario with the medium transaction added to the mempool before
\* the child, as in miner_tests
C13_Witness ==
    /\ pc = "done"
    /\ FeerateScenario(1, 3, 2)
    /\ vtx = <<0, 1, 3, 2>>
    /\ GetModifiedFee(1) > 0

\* the scripts for which CanSend is false, the one Init stores left aside
FrozenCallerScripts == {s \in Scripts \ {DUMMY_SCRIPT} : ~CanSend(s)}

\* C14: while threads freeze and unfreeze scripts of their own, the stored
\* count equals the number of scripts for which CanSend is false in every
\* state a reader can find the store in, and no update of the count is lost.
\* (The entry Init writes for DUMMY_SCRIPT is not counted here.)
C14_CountFollowsFlags ==
    GetNumberOfFrozenScripts = UInt32(Cardinality(FrozenCallerScripts))

\* CreateNewBlock is past LOCK2 and has not returned
InsideLock2 == pc \in {"loop", "adding", "coinbase"}

\* C15: mempool.cs is only held together with cs_main; the tip and the
\* mempool are read with both locks held; both are held until the template
\* is complete; and while they are held neither the mempool nor the tip
\* changes.
C15_LocksHeldDuringBuild ==
    /\ [](csMempool = "assembler" => csMain = "assembler")
    /\ [](InsideLock2 => /\ csMain = "assembler"
                          /\ csMempool = "assembler"
                          /\ pindexPrev = chainTip)
    /\ [][pindexPrev' # pindexPrev =>
             (csMain' = "assembler" /\ csMempool' = "assembler")]_vars
    /\ [][InsideLock2 => /\ mempool' = mempool
                          /\ ancestorScore' = ancestorScore
                          /\ chainTip' = chainTip]_vars

\* a package is being added while another thread still has a transaction
\* to offer and a block to connect; the tip moved and the mempool grew
\* before the locks were taken
C15_Witness ==
    /\ pc = "adding"
    /\ csMain = "assembler"
    /\ csMempool = "assembler"
    /\ Len(mempool) = 1
    /\ Len(mempool) < MaxPoolLocked
    /\ chainTip = 1
    /\ chainTip < MaxTip
    /\ pindexPrev = chainTip

\* the keys held by the nodes of the list, front first
ListKeys == [i \in 1..Len(cacheItemsList) |-> cacheNodes[cacheItemsList[i]].key]

C17_BoundedAfterPut ==
    cacheLast.op = "Put" => Size <= MaxSize

\* C18: a Put of a new key that overflows evicts the key whose last Put or
\* successful Get is the oldest; a successful Get makes its key the most
\* recently used; a Put of a key already present replaces the value, makes
\* the key the most recently used and evicts nothing.
C18_LeastRecentlyUsedEvicted ==
    /\ ListKeys = cacheUse
    /\ (cacheLast.op = "Put" /\ ~cacheLast.found /\ cacheLast.evicted # {}) =>
          LET use == <<cacheLast.key>> \o cacheLast.useBefore
          IN  cacheLast.evicted = {use[Len(use)]}
    /\ (cacheLast.op = "Get" /\ cacheLast.found) =>
          /\ Head(ListKeys) = cacheLast.key
          /\ cacheLast.ret = cacheNodes[cacheItemsMap[cacheLast.key]].value
    /\ (cacheLast.op = "Put" /\ cacheLast.found) =>
          /\ cacheLast.evicted = {}
          /\ Head(ListKeys) = cacheLast.key
          /\ cacheNodes[cacheItemsMap[cacheLast.key]].value = cacheLast.value

\* the heights of the stored cost entries of a type
CostHeights(type) ==
    {h \in Heights : costDb[CostEntry(type, h)] # "absent"}

\* the heights of the stored fee-address entries
FeeHeights == {h \in Heights : feeDb[FeeEntry(h)].exists}

Greatest(heights) == CHOOSE h \in heights : \A o \in heights : o <= h

\* C19: GetCost(t) is the amount of the entry of type t with the greatest
\* height, and GetFeeScript() is the script of the fee-address entry with
\* the greatest height, whenever there is such an entry.
C19_GreatestHeightWins ==
    /\ \A t \in CostTypes :
          CostHeights(t) # {} => GetCost(t) = costDb[CostEntry(t, Greatest(CostHeights(t)))]
    /\ FeeHeights # {} => GetFeeScript = feeDb[FeeEntry(Greatest(FeeHeights))].script

\* an entry at height 256 stands before one at height 1 in key order and
\* holds another amount, a revert has been made, and GetCost returns the
\* amount at height 256
C19_Witness ==
    /\ \E t \in CostTypes :
          /\ {1, 256} \subseteq CostHeights(t)
          /\ costDb[CostEntry(t, 1)] # costDb[CostEntry(t, 256)]
          /\ GetCost(t) = costDb[CostEntry(t, 256)]
    /\ \E i \in 1..Len(costTrace) :
          costTrace[i].op \in {"RevertUpdateCost", "RevertUpdateFeeScript"} /\ costTrace[i].ret

\* GetCost of every type after the first n calls of the trace
CostsAfter(n) ==
    IF n = Len(costTrace) THEN [t \in CostTypes |-> GetCost(t)] ELSE costTrace[n + 1].before

\* C20: UpdateCost followed by RevertUpdateCost for the same (type, height)
\* leaves GetCost(t) of every type t as it was before the UpdateCost.
C20_UpdateThenRevertRestores ==
    \A i \in 1..(Len(costTrace) - 1) :
        ( /\ costTrace[i].op = "UpdateCost"
          /\ costTrace[i + 1].op = "RevertUpdateCost"
          /\ costTrace[i + 1].type = costTrace[i].type
          /\ costTrace[i + 1].height = costTrace[i].height )
        => CostsAfter(i + 1) = costTrace[i].before

\* C21: immediately after Init, GetCost returns for each of the five types
\* the chain-parameter fee of that same type, and GetFeeScript returns the
\* script of the chain-parameter token fee address.
C21_InitCostsMatchParams ==
    costTrace = << >> =>
        /\ GetCost(GOVERNANCE_COST_ROOT) = "RootFeeAmount"
        /\ GetCost(GOVERNANCE_COST_SUB) = "SubFeeAmount"
        /\ GetCost(GOVERNANCE_COST_UNIQUE) = "UniqueFeeAmount"
        /\ GetCost(GOVERNANCE_COST_REISSUE) = "ReissueFeeAmount"
        /\ GetCost(GOVERNANCE_COST_USERNAME) = "UsernameFeeAmount"
        /\ GetFeeScript = TokenFeeScript

\* the last call of GetNextTargetRequired
NextTargetCalled == powLast.op = "GetNextTargetRequired"

\* retargeting is disabled for the kind
NoRetargeting(fProofOfStake) ==
    IF fProofOfStake THEN powParams.fPosNoRetargeting ELSE powParams.fPowNoRetargeting

\* the blocks of a kind in the history that ends at block last
KindBlocks(last, fProofOfStake) ==
    {i \in 1..last : blockIndex[i].pos = fProofOfStake}

\* the same without the genesis block
KindBlocksAfterGenesis(last, fProofOfStake) == KindBlocks(last, fProofOfStake) \ {1}

Latest(blocks) == CHOOSE i \in blocks : \A j \in blocks : j <= i

\* the last call went through the retarget formula, from blocks first and
\* second (the latest of the kind and the one before it)
Retargeted(first, second) ==
    /\ NextTargetCalled
    /\ ~NoRetargeting(powLast.fProofOfStake)
    /\ Cardinality(KindBlocksAfterGenesis(powLast.pindexLast, powLast.fProofOfStake)) >= 2
    /\ first = Latest(KindBlocksAfterGenesis(powLast.pindexLast, powLast.fProofOfStake))
    /\ second = Latest(KindBlocksAfterGenesis(first - 1, powLast.fProofOfStake))

\* a <= b for two 256-bit numbers, as unsigned numbers
Uint256LessEq(a, b) ==
    \A i \in 1..WIDTH : a[i] > b[i] => \E j \in (i + 1)..WIDTH : a[j] < b[j]

\* C22: with retargeting enabled the result is the compact encoding of the
\* exact value prevTarget * ((interval - 1) * targetSpacing + 2 *
\* actualSpacing) / ((interval + 1) * targetSpacing), replaced by
\* targetLimit when that value is 0 or above targetLimit, and it decodes to
\* a target in (0, targetLimit].
C22_RetargetIsExact ==
    \A first, second \in 2..Len(blockIndex) :
        Retargeted(first, second) =>
            /\ powLast.ret = Retarget_Wide(first, blockIndex[second].time)
            /\ ~ArithIsZero(SetCompact(powLast.ret).value)
            /\ Uint256LessEq(SetCompact(powLast.ret).value,
                             GetTargetLimit(powLast.fProofOfStake))

\* the spacing measured between the two blocks of the last retarget
MeasuredSpacing(first, second) == blockIndex[first].time - blockIndex[second].time

\* C23 as claimed: the spacing fed into the retarget formula lies in
\* [targetSpacing, 10 * targetSpacing].
C23_SpacingClamped ==
    \A first, second \in 2..Len(blockIndex) :
        Retargeted(first, second) =>
            LimitAdjustmentStep(MeasuredSpacing(first, second), powParams.nTargetSpacing)
                \in powParams.nTargetSpacing..(10 * powParams.nTargetSpacing)

\* C23 amended: the spacing fed into the retarget formula lies in
\* [0, 10 * targetSpacing]: a negative measured spacing becomes
\* targetSpacing, one above 10 * targetSpacing becomes 10 * targetSpacing,
\* and any other is used as measured.
C23_SpacingClampedAbove ==
    \A first, second \in 2..Len(blockIndex) :
        Retargeted(first, second) =>
            LET measured == MeasuredSpacing(first, second)
                fed == LimitAdjustmentStep(measured, powParams.nTargetSpacing)
            IN  /\ fed \in 0..(10 * powParams.nTargetSpacing)
                /\ measured < 0 => fed = powParams.nTargetSpacing
                /\ measured > 10 * powParams.nTargetSpacing =>
                       fed = 10 * powParams.nTargetSpacing
                /\ measured \in 0..(10 * powParams.nTargetSpacing) => fed = measured

\* a retarget from two blocks 0 seconds apart, after one from two blocks in
\* the wrong order of time
C23_Witness ==
    \E first, second \in 2..Len(blockIndex) :
        /\ Retargeted(first, second)
        /\ MeasuredSpacing(first, second) = 0
        /\ \E third \in 2..Len(blockIndex) :
              third < second /\ blockIndex[third].pos = blockIndex[second].pos
              /\ blockIndex[second].time < blockIndex[third].time

\* C24 as claimed: with retargeting disabled for the kind of the new block
\* the result is the nBits of the parent block.
C24_NoRetargetKeepsParentBits ==
    (NextTargetCalled /\ NoRetargeting(powLast.fProofOfStake)) =>
        powLast.ret = blockIndex[powLast.pindexLast].nBits

\* C24 amended: with retargeting disabled for the kind of the new block the
\* result is the nBits of the latest block of that kind, or the compact
\* target limit of the kind when fewer than two blocks of the kind follow
\* the genesis block.
C24_NoRetargetKeepsKindBits ==
    (NextTargetCalled /\ NoRetargeting(powLast.fProofOfStake)) =>
        LET blocks == KindBlocksAfterGenesis(powLast.pindexLast, powLast.fProofOfStake)
        IN  powLast.ret = IF Cardinality(blocks) < 2
                          THEN GetCompact(GetTargetLimit(powLast.fProofOfStake))
                          ELSE blockIndex[Latest(blocks)].nBits

\* on a chain without retargeting, a block is asked its nBits after two
\* blocks of its kind a long time apart, its parent being of the other kind
C24_Witness ==
    /\ NextTargetCalled
    /\ NoRetargeting(powLast.fProofOfStake)
    /\ blockIndex[powLast.pindexLast].pos # powLast.fProofOfStake
    /\ LET blocks == KindBlocksAfterGenesis(powLast.pindexLast, powLast.fProofOfStake)
       IN  /\ Cardinality(blocks) >= 2
           /\ blockIndex[Latest(blocks)].time
                  - blockIndex[Latest(blocks \ {Latest(blocks)})].time > powParams.nTargetSpacing

\* the result the claims expect of a call that finds two blocks to retarget
\* from
FromTwoLatest(blocks) ==
    CalculateNextTargetRequired(Latest(blocks),
                                blockIndex[Latest(blocks \ {Latest(blocks)})].time)

\* C25 as claimed: the result is the compact target limit of the kind when
\* fewer than two blocks of the kind are in the history that ends at the
\* previous block, and otherwise the retarget from the two latest blocks of
\* the kind.
C25_LimitBelowTwoBlocks ==
    NextTargetCalled =>
        LET blocks == KindBlocks(powLast.pindexLast, powLast.fProofOfStake)
        IN  powLast.ret = IF Cardinality(blocks) < 2
                          THEN GetCompact(GetTargetLimit(powLast.fProofOfStake))
                          ELSE FromTwoLatest(blocks)

\* C25 amended: the same with the genesis block left out of the count and
\* of the retarget.
C25_LimitBelowTwoBlocksAfterGenesis ==
    NextTargetCalled =>
        LET blocks == KindBlocksAfterGenesis(powLast.pindexLast, powLast.fProofOfStake)
        IN  powLast.ret = IF Cardinality(blocks) < 2
                          THEN GetCompact(GetTargetLimit(powLast.fProofOfStake))
                          ELSE FromTwoLatest(blocks)

\* a proof-of-work block is asked its nBits on a retargeting chain whose
\* only proof-of-work blocks are the genesis block and one block more, and
\* gets the limit though the two are not a target spacing apart
C25_Witness ==
    /\ NextTargetCalled
    /\ ~powLast.fProofOfStake
    /\ ~NoRetargeting(FALSE)
    /\ Cardinality(KindBlocks(powLast.pindexLast, FALSE)) = 2
    /\ blockIndex[Latest(KindBlocks(powLast.pindexLast, FALSE))].time # powParams.nTargetSpacing
    /\ powLast.ret = GetCompact(powParams.powLimit)

\* the target a compact encodes: mantissa * 256^(size - 3), its bytes
CompactTarget(nBits) ==
    LET mantissa == nBits.word % 8388608
        shift == nBits.size - 3
    IN  [i \in 1..WIDTH |->
            IF shift >= 0
            THEN (IF i - shift \in 1..3 THEN ByteOf(mantissa, i - shift) ELSE 0)
            ELSE (IF i <= 3 THEN ByteOf(mantissa \div (256 ^ (-shift)), i) ELSE 0)]

\* the compact has the sign bit on a mantissa that is not 0
CompactNegative(nBits) == nBits.word >= 8388608 /\ nBits.word # 8388608

\* the number a compact encodes does not fit 256 bits
CompactOverflows(nBits) ==
    LET mantissa == nBits.word % 8388608
        bytes == IF mantissa = 0 THEN 0 ELSE IF mantissa < 256 THEN 1
                 ELSE IF mantissa < 65536 THEN 2 ELSE 3
    IN  mantissa # 0 /\ nBits.size - 3 + bytes > WIDTH

\* C26: CheckProofOfWork(hash, nBits) is true exactly when nBits decodes to
\* a target that is not negative, not 0, not overflowing and at most
\* powLimit, and hash is at most that target as an unsigned 256-bit number.
C26_CheckProofOfWorkExact ==
    powCheck.op = "CheckProofOfWork" =>
        ( powCheck.ret <=>
            /\ ~CompactNegative(powCheck.nBits)
            /\ ~CompactOverflows(powCheck.nBits)
            /\ \E i \in 1..WIDTH : CompactTarget(powCheck.nBits)[i] # 0
            /\ Uint256LessEq(CompactTarget(powCheck.nBits), powParams.powLimit)
            /\ Uint256LessEq(powCheck.hash, CompactTarget(powCheck.nBits)) )

\* a hash equal to its target, the limit of the chain, is accepted
C26_Witness ==
    /\ powCheck.op = "CheckProofOfWork"
    /\ powCheck.ret
    /\ powCheck.hash = CompactTarget(powCheck.nBits)
    /\ CompactTarget(powCheck.nBits) = SetCompact(GetCompact(powParams.powLimit)).value

(***************************************************************************)
(* GetValueOut: the claim                                                  *)
(***************************************************************************)
\* a 64-bit value that is not negative, in a register one byte wider
Widen(a) == a \o <<0>>

\* the sum of the first n outputs as a number, in a register one byte wider
\* than int64_t; asked for outputs that are not negative only
RECURSIVE SumOfOutputs(_, _)
SumOfOutputs(outs, n) ==
    IF n = 0 THEN Widen(Int64Zero)
    ELSE LET before == SumOfOutputs(outs, n - 1)
         IN  AddFrom(before, Widen(outs[n]), 1, 0, INT64_BYTES + 1)

\* 0 <= a <= MAX_MONEY for a number in the wider register
InMoneyRange(a) == ~BytesBelow(Widen(MAX_MONEY), a, INT64_BYTES + 1)

\* every output value and every partial sum lies in [0, MAX_MONEY]
AllInMoneyRange(outs) ==
    /\ \A i \in 1..Len(outs) :
          ~Int64Negative(outs[i]) /\ InMoneyRange(Widen(outs[i]))
    /\ \A n \in 1..Len(outs) : InMoneyRange(SumOfOutputs(outs, n))

TemplateBuilt == pblocktemplate.op = "CreateNewBlock"

\* the transactions of the template behind the coinbase and the coinstake
TemplateTxs(tpl, fPoS) == SubSeq(tpl.vtx, (IF fPoS THEN 3 ELSE 2), Len(tpl.vtx))

\* the fees of the mempool transactions txs[1..n] of `pool`, added up
RECURSIVE SumOfFees(_, _, _)
SumOfFees(pool, txs, n) ==
    IF n = 0 THEN 0
    ELSE LET before == SumOfFees(pool, txs, n - 1)
         IN  before + pool[txs[n]].fee

\* fees + subsidy(height) for the transactions of the template
FeesPlusSubsidy(tpl, fPoS) ==
    [nFees |-> SumOfFees(mempool, TemplateTxs(tpl, fPoS), Len(TemplateTxs(tpl, fPoS))),
     subsidyAt |-> tpl.hashPrevBlock + 1]

\* the first output of a proof-of-work coinbase carries fees + subsidy
PowCoinbasePays(tpl) == tpl.vtx[1].vout[1].nValue = FeesPlusSubsidy(tpl, FALSE)

\* a proof-of-stake template: the first coinbase output empty, the coinstake
\* with its empty first output at index 1, mempool transactions behind it
PosTemplateShape(tpl) ==
    /\ tpl.vtx[1].vout[1].nValue = 0
    /\ tpl.vtx[1].vout[1].scriptPubKey = "empty"
    /\ Len(tpl.vtx) >= 2
    /\ Len(tpl.vtx[2].vout) = 2
    /\ tpl.vtx[2].vout[1].nValue = 0
    /\ tpl.vtx[2].vout[1].scriptPubKey = "empty"
    /\ \A k \in 3..Len(tpl.vtx) : tpl.vtx[k] \in 1..Len(mempool)

SameMempoolAndTip(a, b) ==
    /\ a.mempool = b.mempool
    /\ a.tip = b.tip
    /\ a.fProofOfStake = b.fProofOfStake

\* the two builds took the same times from the clock: the adjusted time read
\* under the locks (rounded down to the stake granularity for PoS) and, for
\* PoW, the adjusted time UpdateTime read
SameTimesRead(a, b) ==
    /\ a.txProofTime = b.txProofTime
    /\ a.fProofOfStake \/ a.now = b.now

Running(kind) ==
    {w \in DOMAIN workers : workers[w].kind = kind /\ workers[w].state = "running"}

\* C30: when StakeCoins(false) or GenerateSolo(false) has returned, every
\* thread the function had started before has seen the interruption, has
\* ended and has been joined; and the running threads of one kind were all
\* started by one call
C30_StoppedWorkersJoined ==
    /\ workerLast.op \in {"StakeCoins", "GenerateSolo"} /\ ~workerLast.on =>
          \A w \in workerLast.had :
              /\ workers[w].state = "exited"
              /\ workers[w].handle = "joined"
    /\ \A kind \in {"ThreadStakeMiner", "SoloMiner"} :
          \A w1, w2 \in Running(kind) : workers[w1].call = workers[w2].call

(***************************************************************************)
(* GetFrozenScripts: the claim                                             *)
(***************************************************************************)
\* a caller has asked for s to be frozen before call i
CallerFroze(s, i) ==
    \E k \in 1..(i - 1) :
        /\ govTrace[k].op \in {"FreezeScript", "RevertUnfreezeScript"}
        /\ govTrace[k].script = s

Elements(seq) == {seq[i] : i \in 1..Len(seq)}

\* C31: the dummy key sorts before the key of every other script, so
\* GetFrozenScripts returns exactly the scripts that callers froze and that
\* are stored as frozen, whatever their length or content, and no others
C31_ScanReturnsFrozenScripts ==
    \A i \in 1..Len(govTrace) :
        govTrace[i].op = "GetFrozenScripts" =>
            Elements(govTrace[i].ret) =
                {s \in ScanScripts : govTrace[i].preDb[s] = "true" /\ CallerFroze(s, i)}

(***************************************************************************)
(* ProcessBlockFound and CheckStake: handing a produced block over         *)
(***************************************************************************)
\* the blocks the producing threads find while the chain grows this far
MaxHandOffs == 3

\* the blocks in the hands of the producing threads
InHand == {t \in Producers : blockFound[t].at # "search"}

\* the end of a ProcessBlockFound or CheckStake call: what it did with the
\* block, and the tip at that moment
HandOff(t, op) ==
    [by |-> t, op |-> op, hashPrevBlock |-> blockFound[t].hashPrevBlock, tip |-> chainTip]

\* a producing thread finds a block on the tip its template was built on
FindBlock(t) ==
    /\ blockFound[t].at = "search"
    /\ Len(handOffs) + Cardinality(InHand) < MaxHandOffs
    /\ blockFound' = [blockFound EXCEPT ![t] = [at |-> "found", hashPrevBlock |-> chainTip]]
    /\ UNCHANGED handOffs
    /\ UNCHANGED <<lockVars, outsideHandOff>>

\* ProcessNewBlock: validation takes cs_main itself; a block it accepts on
\* the tip becomes the tip
ProcessNewBlock(t, accepted) ==
    /\ csMain \in {"none", t}
    /\ handOffs' = Append(handOffs, HandOff(t, "ProcessNewBlock"))
    /\ chainTip' = IF accepted /\ blockFound[t].hashPrevBlock = chainTip /\ chainTip < MaxTip
                   THEN chainTip + 1
                   ELSE chainTip

\* return error(...): the call ends without a hand-off
ReturnError(t, what) ==
    /\ handOffs' = Append(handOffs, HandOff(t, what))
    /\ blockFound' = [blockFound EXCEPT ![t].at = "search"]

\* ProcessBlockFound: LOCK(cs_main)
ProcessBlockFoundLock ==
    /\ blockFound["SoloMiner"].at = "found"
    /\ csMain = "none"
    /\ csMain' = "SoloMiner"
    /\ blockFound' = [blockFound EXCEPT !["SoloMiner"].at = "locked"]
    /\ UNCHANGED <<handOffs, csMempool, chainTip, pindexPrev>>
    /\ UNCHANGED outsideHandOff

\* ProcessBlockFound: the staleness check; the lock is released at the end
\* of the block that holds the check
ProcessBlockFoundCheck ==
    /\ blockFound["SoloMiner"].at = "locked"
    /\ csMain' = "none"
    /\ IF blockFound["SoloMiner"].hashPrevBlock # chainTip
       THEN ReturnError("SoloMiner", "stale")
       ELSE /\ blockFound' = [blockFound EXCEPT !["SoloMiner"].at = "checked"]
            /\ UNCHANGED handOffs
    /\ UNCHANGED <<csMempool, chainTip, pindexPrev>>
    /\ UNCHANGED outsideHandOff

\* ProcessBlockFound: the call of ProcessNewBlock, after the lock
ProcessBlockFoundHandOff ==
    /\ blockFound["SoloMiner"].at = "checked"
    /\ \E accepted \in BOOLEAN : ProcessNewBlock("SoloMiner", accepted)
    /\ blockFound' = [blockFound EXCEPT !["SoloMiner"].at = "search"]
    /\ UNCHANGED <<csMain, csMempool, pindexPrev>>
    /\ UNCHANGED outsideHandOff

\* CheckStake: IsProofOfStake and CheckProofOfStake, before the lock
CheckStakeProof ==
    /\ blockFound["ThreadStakeMiner"].at = "found"
    /\ \E ok \in BOOLEAN :
          IF ok
          THEN /\ blockFound' = [blockFound EXCEPT !["ThreadStakeMiner"].at = "proved"]
               /\ UNCHANGED handOffs
          ELSE ReturnError("ThreadStakeMiner", "proof")
    /\ UNCHANGED lockVars
    /\ UNCHANGED outsideHandOff

\* CheckStake: LOCK(cs_main)
CheckStakeLock ==
    /\ blockFound["ThreadStakeMiner"].at = "proved"
    /\ csMain = "none"
    /\ csMain' = "ThreadStakeMiner"
    /\ blockFound' = [blockFound EXCEPT !["ThreadStakeMiner"].at = "locked"]
    /\ UNCHANGED <<handOffs, csMempool, chainTip, pindexPrev>>
    /\ UNCHANGED outsideHandOff

\* CheckStake: the staleness check and the IsSpent loop; an error leaves the
\* block that holds the lock
CheckStakeCheck ==
    /\ blockFound["ThreadStakeMiner"].at = "locked"
    /\ IF blockFound["ThreadStakeMiner"].hashPrevBlock # chainTip
       THEN /\ ReturnError("ThreadStakeMiner", "stale")
            /\ csMain' = "none"
       ELSE \E spent \in BOOLEAN :
               IF spent
               THEN /\ ReturnError("ThreadStakeMiner", "spent")
                    /\ csMain' = "none"
               ELSE /\ blockFound' = [blockFound EXCEPT !["ThreadStakeMiner"].at = "checked"]
                    /\ UNCHANGED <<handOffs, csMain>>
    /\ UNCHANGED <<csMempool, chainTip, pindexPrev>>
    /\ UNCHANGED outsideHandOff

\* CheckStake: the call of ProcessNewBlock, inside the lock, which is
\* released when the call is back
CheckStakeHandOff ==
    /\ blockFound["ThreadStakeMiner"].at = "checked"
    /\ \E accepted \in BOOLEAN : ProcessNewBlock("ThreadStakeMiner", accepted)
    /\ csMain' = "none"
    /\ blockFound' = [blockFound EXCEPT !["ThreadStakeMiner"].at = "search"]
    /\ UNCHANGED <<csMempool, pindexPrev>>
    /\ UNCHANGED outsideHandOff

\* the solo miner and the staker hand their blocks over while other threads
\* connect blocks whenever cs_main lets them
HandOffNext ==
    \/ \E t \in Producers : FindBlock(t)
    \/ TipChange
    \/ ProcessBlockFoundLock
    \/ ProcessBlockFoundCheck
    \/ ProcessBlockFoundHandOff
    \/ CheckStakeProof
    \/ CheckStakeLock
    \/ CheckStakeCheck
    \/ CheckStakeHandOff

SpecHandOff == GovStart /\ [][HandOffNext]_vars

(***************************************************************************)
(* ProcessBlockFound and CheckStake: the claim                             *)
(***************************************************************************)
\* C32: a block of the solo miner or of the staker is handed to
\* ProcessNewBlock only while its hashPrevBlock is the active tip, no other
\* thread having moved the tip since the staleness check
C32_HandOffOnTip ==
    \A i \in 1..Len(handOffs) :
        handOffs[i].op = "ProcessNewBlock" => handOffs[i].hashPrevBlock = handOffs[i].tip

(***************************************************************************)
(* addPackageTxs: termination                                              *)
(***************************************************************************)
\* the passes of the loop of addPackageTxs and the steps they are made of
AddPackageTxsStep ==
    \/ LoopEnd
    \/ SkipEntry
    \/ ReturnLowFee
    \/ FailPackage
    \/ FailFinal
    \/ SelectPackage
    \/ AddToBlock
    \/ PackageAdded

\* the mempool size up to which the builds that must terminate are followed
MaxPoolFair == 3

FairNext ==
    \/ /\ pc = "idle"
       /\ Len(mempool) < MaxPoolFair
       /\ \E kind \in TxKinds : \E parents \in SUBSET TxIds : AddUnchecked(kind, parents)
    \/ CreateNewBlock
    \/ LockMain
    \/ LockMempool
    \/ LoopEnd
    \/ SkipEntry
    \/ ReturnLowFee
    \/ FailPackage
    \/ FailFinal
    \/ SelectPackage
    \/ AddToBlock
    \/ PackageAdded
    \/ FinishBlock

\* a template build whose thread, once inside addPackageTxs with both locks
\* held, keeps running
SpecMinerFair == MinerStart /\ [][FairNext]_vars /\ WF_vars(AddPackageTxsStep)

ModifiedSet == DOMAIN mapModifiedTx

\* the passes of this build that took entry e from the modified set
ModifiedEvaluations(e) ==
    Cardinality({k \in 1..Len(evalLog) : evalLog[k].iter = e /\ evalLog[k].fUsingModified})

\* a pass of the loop moves the cursor on, takes an entry out of the
\* modified set, goes on to add a package of transactions that are not in
\* the block, or leaves the loop
PassProgresses ==
    pc = "loop" =>
        \/ mi' > mi
        \/ ModifiedSet' \subseteq ModifiedSet /\ ModifiedSet' # ModifiedSet
        \/ pc' = "adding" /\ package' # {} /\ package' \cap inBlock = {}
        \/ pc' = "coinbase"

\* a pass that went on to add a package is over when the package is in the
\* block
PackageWentIn ==
    (pc = "adding" /\ pc' = "loop") => package # {} /\ package \subseteq inBlock

\* C33: addPackageTxs terminates: every pass of its loop advances the
\* cursor, removes an entry from the modified set or adds at least one
\* transaction to the block; an entry is taken from the modified set at
\* most once for each of its ancestors; the loop is left
C33_AddPackageTxsTerminates ==
    /\ [][PassProgresses /\ PackageWentIn]_vars
    /\ [](\A e \in TxIds : ModifiedEvaluations(e) <= Cardinality(Ancestors(e)))
    /\ (pc = "loop") ~> (pc = "coinbase")

\* the loop has ended in a build in which an entry was rejected from the
\* modified set, came back when a further ancestor went in and was taken
\* from it again
C33_Witness ==
    /\ pc = "coinbase"
    /\ \E e \in TxIds : ModifiedEvaluations(e) >= 2 /\ e \in failedTx

(***************************************************************************)
(* The frozen count: no wrap-around                                        *)
(***************************************************************************)
\* call i lowered the count: the script was stored frozen when an
\* UnfreezeScript or RevertFreezeScript call for it came in
LoweredCount(i) ==
    /\ govTrace[i].op \in {"UnfreezeScript", "RevertFreezeScript"}
    /\ govTrace[i].preDb[govTrace[i].script] = "true"

\* C34: the frozen count never wraps: every UnfreezeScript or
\* RevertFreezeScript call that lowers it, for whatever script, the dummy
\* script of Init included, is made while the count is at least 1
C34_CountNeverWraps ==
    \A i \in 1..Len(govTrace) :
        LoweredCount(i) => govTrace[i].preNumber # UInt32(0)

(***************************************************************************)
(* bannedFunds and areBannedInputs                                         *)
(***************************************************************************)
\* the areBannedInputs calls followed
MaxBannedCalls == 2

\* the transaction ids of the initializer, each by its four highest bytes
\* (b1936763..., 51eb6faf..., d0f9360f...), and one that is not listed
Txid_b193 == <<177, 147, 103, 99>>

Txid_51eb == <<81, 235, 111, 175>>

Txid_d0f9 == <<208, 249, 54, 15>>

Txid_other == <<0, 0, 0, 1>>

\* the initializer list of bannedFunds, as written
BannedInitializer ==
    << <<Txid_b193, 1>>, <<Txid_51eb, 1>>, <<Txid_d0f9, 0>>, <<Txid_d0f9, 1>> >>

\* std::map built from an initializer list: one element for each key; of
\* the elements of the list whose keys are equal, which one is inserted is
\* left open by the library
MapsFrom(list) ==
    LET keys == {list[i][1] : i \in 1..Len(list)}
    IN  {f \in [keys -> {list[i][2] : i \in 1..Len(list)}] :
            \A k \in keys : \E i \in 1..Len(list) : list[i] = <<k, f[k]>>}

BannedInit ==
    /\ bannedFunds \in MapsFrom(BannedInitializer)
    /\ bannedTrace = << >>

\* the loop of areBannedInputs: some element has this key and this value
InBannedFunds(txid, n) ==
    \E k \in DOMAIN bannedFunds : k = txid /\ bannedFunds[k] = n

areBannedInputs(txid, n) ==
    /\ Len(bannedTrace) < MaxBannedCalls
    /\ bannedTrace' = Append(bannedTrace,
                             [txid |-> txid, vout |-> n, ret |-> InBannedFunds(txid, n)])
    /\ UNCHANGED bannedFunds
    /\ UNCHANGED outsideBanned

BannedNext ==
    \E txid \in {Txid_b193, Txid_51eb, Txid_d0f9, Txid_other} :
        \E n \in 0..2 : areBannedInputs(txid, n)

BannedStart ==
    /\ BannedInit
    /\ GovInit /\ MinerIdle
    /\ ThreadsInit /\ CacheEmpty /\ CostInit /\ PowIdle /\ AmountIdle /\ WorkersIdle
    /\ blockFound = [t \in Producers |-> [at |-> "search", hashPrevBlock |-> -1]]
    /\ handOffs = << >>

SpecBanned == BannedStart /\ [][BannedNext]_vars

\* the pairs written in the initializer
ListedPairs == {BannedInitializer[i] : i \in 1..Len(BannedInitializer)}

\* C35: areBannedInputs(txid, vout) returns true for each of the four pairs
\* written in the initializer of bannedFunds, outputs 0 and 1 of the
\* transaction listed twice included, and false for every other pair
C35_BannedPairs ==
    \A i \in 1..Len(bannedTrace) :
        bannedTrace[i].ret = (<<bannedTrace[i].txid, bannedTrace[i].vout>> \in ListedPairs)

(***************************************************************************)
(* CLRUCache: the copy constructor                                         *)
(***************************************************************************)
\* the map entry of key k refers to a node that is an element of the list
\* of the same cache
RefersToOwnList(k) ==
    /\ \E i \in 1..Len(cacheItemsList) : cacheItemsList[i] = cacheItemsMap[k]
    /\ cacheNodes[cacheItemsMap[k]].owner = "this"

\* C36: a copy-constructed CLRUCache is independent of its source: every map
\* entry of the copy refers to an element of the copy's own list, so that
\* Put, Get and Erase on the copy, which hand the entry to the copy's list,
\* never change the contents or the recency order of the original cache
C36_CopyIndependent ==
    cacheLast.op = "Copy" => \A k \in Keys : CacheExists(k) => RefersToOwnList(k)

====
